---- MODULE Spec2Model ----
(***************************************************************************)
(* Model of the reactive event layer of the stocker terminal dashboard:    *)
(* the overlay arbitration fold and its next-tick queue, the main loop     *)
(* that flushes the queue, the active-overlay fold, the text-field reducer *)
(* and the select-menu reducer, with the stream combinators they are       *)
(* built from.                                                             *)
(*                                                                         *)
(* Option<T> is modelled as a sequence: <<>> is None, <<x>> is Some(x).    *)
(* An im::HashMap is modelled as a function whose DOMAIN is its key set.   *)
(***************************************************************************)
EXTENDS Integers, Sequences, FiniteSets, TLC

None == <<>>
Some(x) == <<x>>

Range(s) == {s[i] : i \in 1..Len(s)}

\* All sequences that list every element of the finite set S exactly once.
Orderings(S) ==
    {f \in [1..Cardinality(S) -> S] :
        \A i, j \in 1..Cardinality(S) : i # j => f[i] # f[j]}

(***************************************************************************)
(* Bounds of the model.                                                    *)
(***************************************************************************)
\* Number of main-loop iterations explored.
MaxIterations == 4

(***************************************************************************)
(* Program vocabulary.                                                     *)
(***************************************************************************)
\* enum UiTarget
UiTarget ==
    {"IndicatorBox", "IndicatorList", "StockName", "StockSymbol",
     "StockSymbolInput", "TimeFrameBox", "TimeFrameList"}

\* The overlays: the targets whose overlay state main feeds before the loop.
InitialOverlayStates ==
    << [ui_target |-> "StockSymbolInput", overlay_state |-> "Inactive"],
       [ui_target |-> "TimeFrameList", overlay_state |-> "Inactive"],
       [ui_target |-> "IndicatorList", overlay_state |-> "Inactive"] >>

OverlayUiTarget == {InitialOverlayStates[i].ui_target : i \in 1..Len(InitialOverlayStates)}

\* enum OverlayState; its Default is Inactive.
OverlayState == {"Active", "Inactive"}
OverlayStateDefault == "Inactive"

\* The variants of TextFieldEvent / SelectMenuEvent that the arbitration fold
\* distinguishes; every other variant (Input, MoveCursor, SelectIndex, the
\* edge events) takes the fold's wildcard arm and is written "Other" here.
OverlayEventKind == {"Activate", "Accept", "Deactivate", "Toggle", "Other"}

(***************************************************************************)
(* im::HashMap operations used by the arbitration fold.                    *)
(***************************************************************************)
EmptyMap == [k \in {} |-> OverlayStateDefault]

\* A plausible slip: the union keeps the right-hand values.
HmUnionRightBiased(a, b) ==
    [k \in DOMAIN a \cup DOMAIN b |-> IF k \in DOMAIN b THEN b[k] ELSE a[k]]

\* a + b: the union, keeping the values of a for keys in both maps.
HmUnion(a, b) ==
    [k \in DOMAIN a \cup DOMAIN b |-> IF k \in DOMAIN a THEN a[k] ELSE b[k]]

\* A plausible slip: keys present in both maps are always discarded
\* (HashMap::difference instead of difference_with).
HmDifferencePlain(a, b) ==
    [k \in (DOMAIN a \cup DOMAIN b) \ (DOMAIN a \cap DOMAIN b) |->
        IF k \in DOMAIN b THEN b[k] ELSE a[k]]

\* a.difference_with(b, |x, y| if x != y { Some(y) } else { None }):
\* keys of one map only are kept; a key of both is kept, with b's value,
\* when the two values differ.
HmDifferenceWith(a, b) ==
    [k \in {k \in DOMAIN a \cup DOMAIN b :
                \/ k \notin DOMAIN a
                \/ k \notin DOMAIN b
                \/ a[k] # b[k]} |->
        IF k \in DOMAIN b THEN b[k] ELSE a[k]]

(***************************************************************************)
(* Stream combinators (reactive/stream_ext.rs).                            *)
(***************************************************************************)
\* A plausible slip: distinct_until_changed compares with nothing.
DistinctUntilChangedEmitsAlways(buf, x) == TRUE

\* distinct_until_changed: x is passed on unless the buffer holds Some(x);
\* the buffer then holds Some(x).
DistinctUntilChangedEmits(buf, x) == buf # Some(x)

(***************************************************************************)
(* Overlay arbitration (queue_overlay_states_for_next_tick).               *)
(***************************************************************************)
\* A plausible slip: Accept is left to the wildcard arm.
OverlayStateForEventAcceptKept(kind, acc_overlay_state) ==
    CASE kind = "Activate" -> "Active"
      [] kind = "Deactivate" -> "Inactive"
      [] kind = "Toggle" /\ acc_overlay_state = "Active" -> "Inactive"
      [] kind = "Toggle" /\ acc_overlay_state = "Inactive" -> "Active"
      [] OTHER -> acc_overlay_state

\* The overlay state an event asks for, given the target's accumulated state.
OverlayStateForEvent(kind, acc_overlay_state) ==
    CASE kind = "Activate" -> "Active"
      [] kind \in {"Accept", "Deactivate"} -> "Inactive"
      [] kind = "Toggle" /\ acc_overlay_state = "Active" -> "Inactive"
      [] kind = "Toggle" /\ acc_overlay_state = "Inactive" -> "Active"
      [] OTHER -> acc_overlay_state

\* One step of the fold: the changeset and the new accumulated map.
ArbitrationStep(acc_overlay_state_map_, ui_target, kind) ==
    LET acc_overlay_state ==
            IF ui_target \in DOMAIN acc_overlay_state_map_
            THEN acc_overlay_state_map_[ui_target]
            ELSE "Inactive"
        overlay_state == OverlayStateForEvent(kind, acc_overlay_state)
        deactivated ==
            [k \in {k \in DOMAIN acc_overlay_state_map_ :
                        acc_overlay_state_map_[k] = "Active"} |-> "Inactive"]
        overlay_state_map ==
            HmUnion([k \in {ui_target} |-> overlay_state],
                    IF overlay_state = "Active"
                    THEN HmUnion(deactivated, acc_overlay_state_map_)
                    ELSE acc_overlay_state_map_)
        changeset == HmDifferenceWith(acc_overlay_state_map_, overlay_state_map)
    IN  [changeset |-> changeset, map |-> overlay_state_map]

\* The subscriber iterates the changeset, an im::HashMap hashed with a
\* per-process RandomState: the iteration order is any order of its entries.
ChangesetIterationOrders(changeset) == Orderings(DOMAIN changeset)

\* A plausible slip: only the first entry of the changeset is queued.
PushChangesetFirstOnly(queue, changeset, order, tick) ==
    queue \o
    [i \in 1..(IF Len(order) = 0 THEN 0 ELSE 1) |->
        [ui_target |-> order[i], overlay_state |-> changeset[order[i]],
         computed_at |-> tick]]

\* push_back of every changeset entry, in iteration order.  computed_at is
\* a history tag: the main-loop iteration whose input event produced it.
PushChangeset(queue, changeset, order, tick) ==
    queue \o
    [i \in 1..Len(order) |->
        [ui_target |-> order[i], overlay_state |-> changeset[order[i]],
         computed_at |-> tick]]

(***************************************************************************)
(* to_active_overlays.                                                     *)
(***************************************************************************)
\* The fold step: an Active target becomes the active overlay; an Inactive
\* one clears it only when it is the current active overlay.
ActiveOverlayStep(acc_active_overlay_, ui_target, overlay_state) ==
    IF overlay_state = "Active"
    THEN Some(ui_target)
    ELSE IF acc_active_overlay_ = Some(ui_target)
         THEN None
         ELSE acc_active_overlay_

(***************************************************************************)
(* The reducers' reaction to a flushed overlay state, as far as the        *)
(* arbitration fold sees it: a reducer whose active flag changes emits     *)
(* Activate (state Active) or Deactivate (state Inactive).                 *)
(***************************************************************************)
\* A plausible slip: the reducer answers a flushed state with Toggle.
ReducerEchoKindToggle(overlay_state) == "Toggle"

ReducerEchoKind(overlay_state) ==
    IF overlay_state = "Active" THEN "Activate" ELSE "Deactivate"

(***************************************************************************)
(* The main loop's flush: for (t, s) in queue.borrow_mut().drain(..)       *)
(*   { overlay_states.send((t, s)) }                                       *)
(***************************************************************************)
\* A plausible slip: the flush sends only the entry at the front and
\* leaves the others on the queue.
DrainedQueueKeepingRest(queue) == IF queue = <<>> THEN <<>> ELSE Tail(queue)

\* drain(..) removes every entry.
DrainedQueue(queue) == <<>>

\* The entries the for loop sends: those that drain(..) removed.
RECURSIVE SendEach(_, _, _, _, _)
SendEach(st, entries, echo, i, tick) ==
    IF i > Len(entries) \/ st.panicked
    THEN st
    ELSE LET e == entries[i]
             acc == ActiveOverlayStep(st.acc_active_overlay, e.ui_target, e.overlay_state)
             emits == DistinctUntilChangedEmits(st.active_overlay_buf, acc)
             arb == IF echo[i]
                    THEN ArbitrationStep(st.map, e.ui_target, ReducerEchoKind(e.overlay_state))
                    ELSE [changeset |-> st.changeset, map |-> st.map]
             \* a non-empty changeset makes the subscriber take
             \* queue.borrow_mut() while drain(..) holds it: BorrowMutError
             panics == echo[i] /\ DOMAIN arb.changeset # {}
         IN  SendEach(
                [map |-> arb.map,
                 changeset |-> arb.changeset,
                 acc_active_overlay |-> acc,
                 active_overlay_buf |-> IF emits THEN Some(acc) ELSE st.active_overlay_buf,
                 active_overlays_sent |->
                    IF emits THEN Append(st.active_overlays_sent, acc)
                    ELSE st.active_overlays_sent,
                 overlay_states_sent |->
                    Append(st.overlay_states_sent,
                           [ui_target |-> e.ui_target, overlay_state |-> e.overlay_state,
                            computed_at |-> e.computed_at, sent_at |-> tick]),
                 panicked |-> panics],
                entries, echo, i + 1, tick)

NoEcho(entries) == [i \in 1..Len(entries) |-> FALSE]

\* The active-overlay values that sending the entries, in this order, emits.
ActiveOverlaysEmitted(acc, buf, entries) ==
    SendEach([map |-> EmptyMap, changeset |-> EmptyMap,
              acc_active_overlay |-> acc, active_overlay_buf |-> buf,
              active_overlays_sent |-> <<>>, overlay_states_sent |-> <<>>,
              panicked |-> FALSE],
             entries, NoEcho(entries), 1, 0).active_overlays_sent

(***************************************************************************)
(* Input events, rectangles and hit-testing.                               *)
(***************************************************************************)
\* InputEvent::Key(KeyEvent { code, .. }); ch is the char of KeyCode::Char.
Key(code) == [type |-> "Key", code |-> code, ch |-> "", x |-> 0, y |-> 0]
CharKey(c) == [type |-> "Key", code |-> "Char", ch |-> c, x |-> 0, y |-> 0]
\* InputEvent::Mouse(MouseEvent::Up(MouseButton::Left, x, y, _))
Click(x, y) == [type |-> "MouseUpLeft", code |-> "", ch |-> "", x |-> x, y |-> y]
\* any other InputEvent::Mouse
MouseOther == [type |-> "MouseOther", code |-> "", ch |-> "", x |-> 0, y |-> 0]

\* tui::layout::Rect and its edges.
Rect(x, y, width, height) == [x |-> x, y |-> y, width |-> width, height |-> height]
RectLeft(area) == area.x
RectRight(area) == area.x + area.width
RectTop(area) == area.y
RectBottom(area) == area.y + area.height

\* A plausible slip: the right and bottom edges are taken as inside.
AreaContainsInclusive(area, x, y) ==
    /\ RectLeft(area) <= x
    /\ RectRight(area) >= x
    /\ RectTop(area) <= y
    /\ RectBottom(area) >= y

\* The closure of the reducers' hit test.
AreaContains(area, x, y) ==
    /\ RectLeft(area) <= x
    /\ RectRight(area) > x
    /\ RectTop(area) <= y
    /\ RectBottom(area) > y

\* ui_target_areas.iter().find(..): the first entry whose area holds (x, y).
RECURSIVE FindHit(_, _, _)
FindHit(ui_target_areas, x, y) ==
    IF ui_target_areas = <<>>
    THEN None
    ELSE IF AreaContains(Head(ui_target_areas).area, x, y)
         THEN Some(Head(ui_target_areas))
         ELSE FindHit(Tail(ui_target_areas), x, y)

\* hit.map(|(ui_target, _)| *ui_target)
HitTarget(hit) == IF hit = None THEN None ELSE Some(hit[1].ui_target)

\* A plausible slip: the entries with a rectangle are kept in report order.
RenderedAreasInReportOrder(reports) ==
    LET Rendered(r) == r.area # None
        kept == SelectSeq(reports, Rendered)
    IN  [i \in 1..Len(kept) |->
            [ui_target |-> kept[i].ui_target, area |-> kept[i].area[1]]]

\* The map applied to the full area buffer: entries without a rectangle are
\* dropped and the order is reversed.
RECURSIVE RenderedAreasReversed(_)
RenderedAreasReversed(reports) ==
    IF reports = <<>>
    THEN <<>>
    ELSE LET rest == RenderedAreasReversed(Tail(reports))
             r == Head(reports)
         IN  IF r.area = None
             THEN rest
             ELSE Append(rest, [ui_target |-> r.ui_target, area |-> r.area[1]])

(***************************************************************************)
(* More stream combinators.                                                *)
(***************************************************************************)
\* A plausible slip: a full buffer is emitted but not cleared.
BufferPushKeeping(buf, count, x) ==
    LET pushed == Append(buf, x)
    IN  [buf |-> pushed,
         out |-> IF Len(pushed) = count THEN Some(pushed) ELSE None]

\* buffer(count): push x; a buffer that reaches count items is emitted and
\* cleared.
BufferPush(buf, count, x) ==
    LET pushed == Append(buf, x)
        full == Len(pushed) = count
    IN  [buf |-> IF full THEN <<>> ELSE pushed,
         out |-> IF full THEN Some(pushed) ELSE None]

\* combine_latest, an item a on stream_a (buf_a and buf_ctx are replaced by
\* the caller): emits (a, b) when buf_b holds b.
CombineLatestOnA(buf_b, a) ==
    IF buf_b = None THEN None ELSE Some(<<a, buf_b[1]>>)

\* A plausible slip: combine_latest stays silent on an item of stream_b.
CombineLatestOnBSilent(buf_a, b) == None

\* combine_latest, an item b on stream_b: emits (a, b) when buf_a holds a.
CombineLatestOnB(buf_a, b) ==
    IF buf_a = None THEN None ELSE Some(<<buf_a[1], b>>)

\* A plausible slip: with_latest_from emits before stream_b has sent.
WithLatestFromOnAEager(buf_b, a) == Some(<<a, IF buf_b = None THEN a ELSE buf_b[1]>>)

\* with_latest_from, an item a on stream_a: emits (a, b) when buf_b holds b.
WithLatestFromOnA(buf_b, a) ==
    IF buf_b = None THEN None ELSE Some(<<a, buf_b[1]>>)

(***************************************************************************)
(* Text-field reducer (to_text_field_events).                              *)
(***************************************************************************)
\* Longest text-field value explored.
MaxValueLen == 3

\* The characters typed in the model: the activation hotkey and a blank.
InputChar == {"s", " "}

\* char::to_ascii_uppercase on the characters of the model.
ToAsciiUppercase(c) ==
    CASE c = "s" -> "S"
      [] c = "q" -> "Q"
      [] c = "t" -> "T"
      [] OTHER -> c

\* A plausible slip: the normalizer drops the last character.
MapValueFuncTruncating(value) ==
    [i \in 1..(IF Len(value) = 0 THEN 0 ELSE Len(value) - 1) |-> ToAsciiUppercase(value[i])]

\* map_value_func of the stock symbol field: |v| v.to_ascii_uppercase()
MapValueFunc(value) == [i \in 1..Len(value) |-> ToAsciiUppercase(value[i])]

IsWhitespace(c) == c = " "

\* str::trim
RECURSIVE TrimStart(_)
TrimStart(value) ==
    IF value # <<>> /\ IsWhitespace(Head(value)) THEN TrimStart(Tail(value)) ELSE value

RECURSIVE TrimEnd(_)
TrimEnd(value) ==
    IF value # <<>> /\ IsWhitespace(value[Len(value)])
    THEN TrimEnd(SubSeq(value, 1, Len(value) - 1))
    ELSE value

Trim(value) == TrimEnd(TrimStart(value))

\* The parameters the stock symbol field is built with.
TextFieldActivationHotkey == CharKey("s")
TextFieldSelfUiTarget == "StockSymbolInput"

\* text_field_event_map, keyed by Option<UiTarget>.
TextFieldEventMapGiven ==
    [k \in {Some("StockSymbol"), Some("StockName"), None} |->
        IF k = None THEN "Deactivate" ELSE "Toggle"]

\* text_field_event_map.without(&Some(self_ui_target))
TextFieldEventMap ==
    [k \in DOMAIN TextFieldEventMapGiven \ {Some(TextFieldSelfUiTarget)} |->
        TextFieldEventMapGiven[k]]

\* The targets whose area reports pass the reducer's filter, and the size
\* of its area buffer.
TextFieldAreaFilter(ui_target) ==
    ui_target = TextFieldSelfUiTarget \/ Some(ui_target) \in DOMAIN TextFieldEventMap
\* A plausible slip: the field's own target is not counted.
TextFieldAreaBufferCountWithoutSelf == Cardinality(DOMAIN TextFieldEventMap \ {None})

\* buffer(text_field_event_map.without(&None).len() + 1)
TextFieldAreaBufferCount == Cardinality(DOMAIN TextFieldEventMap \ {None}) + 1

\* TextFieldEvent values.
TfEvent(kind) == [kind |-> kind, value |-> <<>>, offset |-> 0]
TfAccept(value) == [kind |-> "Accept", value |-> value, offset |-> 0]
TfInput(value) == [kind |-> "Input", value |-> value, offset |-> 0]
TfMoveCursor(offset) == [kind |-> "MoveCursor", value |-> <<>>, offset |-> offset]

\* TextFieldState
TextFieldState(active, value, cursor_offset) ==
    [active |-> active, value |-> value, cursor_offset |-> cursor_offset]

\* A plausible slip: Backspace removes the character but keeps the cursor.
BackspaceCursorKept(cursor_offset) == cursor_offset

\* The cursor after Backspace.
BackspaceCursor(cursor_offset) == cursor_offset - 1

\* A plausible slip: the edge arms of Backspace and Delete are missing their
\* cursor guards' effect and reset the cursor.
EdgeStateResettingCursor(st) == [st EXCEPT !.cursor_offset = Len(st.value)]

\* The state the edge arms (BackspacePastStart, DeletePastEnd) return.
EdgeState(st) == st

\* A plausible slip: Left and Right clamp silently and report the move.
MoveEdgeEventClamping(kind, st) == TfMoveCursor(st.cursor_offset)

\* The event the edge arms of Left and Right return.
MoveEdgeEvent(kind, st) == TfEvent(kind)

\* A plausible slip: deactivating only clears the active flag and keeps
\* the edited value.
DeactivatedStateKeepingEdits(st, saved) == [st EXCEPT !.active = FALSE]

\* The state every deactivating arm returns: the saved state.
DeactivatedState(st, saved) == saved

\* A plausible slip: the Enter arm is missing its guard on the value.
EnterAcceptsAnyValue(st) == st.active

\* The guard of the Enter arm.
EnterAccepts(st) == st.active /\ st.value # <<>>

\* A plausible slip: the character is always pushed at the end.
InsertedValueAtEnd(value, cursor_offset, c) == Append(value, c)

\* The value the Char arm builds before mapping it: c pushed at the end, or
\* chained between the characters before and from the cursor.
InsertedValue(value, cursor_offset, c) ==
    IF cursor_offset = Len(value)
    THEN Append(value, c)
    ELSE SubSeq(value, 1, cursor_offset)
         \o <<c>>
         \o SubSeq(value, cursor_offset + 1, Len(value))

\* A plausible slip: Delete skips one character too many before it removes.
DeletedValueOffByOne(value, cursor_offset) ==
    SubSeq(value, 1, cursor_offset + 1) \o SubSeq(value, cursor_offset + 3, Len(value))

\* The value the Delete arm builds before mapping it.
DeletedValue(value, cursor_offset) ==
    SubSeq(value, 1, cursor_offset) \o SubSeq(value, cursor_offset + 2, Len(value))

\* A plausible slip: the arm of Toggle on an inactive field is missing.
ToggleIgnoredWhileInactive(mapped_event, active) == FALSE

\* The guard of the arm in which a click mapped to Toggle activates.
ToggleActivates(mapped_event, active) == mapped_event = Some("Toggle") /\ ~active

\* The fold step of the reducer.  acc is the accumulator without its event
\* component, which the step never reads; the result carries the event.
TextFieldStep(acc, ev, overlay_state, ui_target_areas) ==
    LET st == acc.text_field_state
        saved == acc.saved_text_field_state
        count == Len(st.value)
        cursor_offset == st.cursor_offset
        Result(e, s) ==
            [ev |-> e, text_field_state |-> s,
             saved_text_field_state |-> saved, overlay_state |-> overlay_state]
        noop == Result(None, st)
        activate == Result(Some(TfEvent("Activate")), [st EXCEPT !.active = TRUE])
        deactivate == Result(Some(TfEvent("Deactivate")), DeactivatedState(st, saved))
        Edited(value, cursor) ==
            LET mapped == MapValueFunc(value)
            IN  Result(Some(TfInput(mapped)),
                       [st EXCEPT !.cursor_offset = cursor, !.value = mapped])
        hit == FindHit(ui_target_areas, ev.x, ev.y)
        mapped_event ==
            IF HitTarget(hit) \in DOMAIN TextFieldEventMap
            THEN Some(TextFieldEventMap[HitTarget(hit)])
            ELSE None
    IN  IF acc.overlay_state # overlay_state
        THEN IF ~(IF overlay_state = "Active" THEN ~st.active ELSE st.active)
             THEN noop
             ELSE IF overlay_state = "Active" THEN activate ELSE deactivate
        ELSE IF ev.type = "Key"
        THEN IF ev.code = "Enter" /\ EnterAccepts(st)
             THEN Result(Some(TfAccept(Trim(st.value))), saved)
             ELSE IF ev.code = "Esc" /\ st.active
             THEN deactivate
             ELSE IF ev.code = "Backspace" /\ st.active /\ cursor_offset = 0
             THEN Result(Some(TfEvent("BackspacePastStart")), EdgeState(st))
             ELSE IF ev.code = "Backspace" /\ st.active
             THEN Edited(IF cursor_offset = count
                         THEN SubSeq(st.value, 1, count - 1)
                         ELSE SubSeq(st.value, 1, cursor_offset - 1)
                              \o SubSeq(st.value, cursor_offset + 1, count),
                         BackspaceCursor(cursor_offset))
             ELSE IF ev.code = "Delete" /\ st.active /\ cursor_offset = count
             THEN Result(Some(TfEvent("DeletePastEnd")), EdgeState(st))
             ELSE IF ev.code = "Delete" /\ st.active
             THEN Edited(DeletedValue(st.value, cursor_offset), cursor_offset)
             ELSE IF ev.code = "Left" /\ st.active /\ cursor_offset = 0
             THEN Result(Some(MoveEdgeEvent("MoveCursorPastStart", st)), st)
             ELSE IF ev.code = "Left" /\ st.active
             THEN Result(Some(TfMoveCursor(cursor_offset - 1)),
                         [st EXCEPT !.cursor_offset = cursor_offset - 1])
             ELSE IF ev.code = "Right" /\ st.active /\ cursor_offset = count
             THEN Result(Some(MoveEdgeEvent("MoveCursorPastEnd", st)), st)
             ELSE IF ev.code = "Right" /\ st.active
             THEN Result(Some(TfMoveCursor(cursor_offset + 1)),
                         [st EXCEPT !.cursor_offset = cursor_offset + 1])
             ELSE IF ev.code = "Home" /\ st.active
             THEN Result(Some(TfMoveCursor(0)), [st EXCEPT !.cursor_offset = 0])
             ELSE IF ev.code = "End" /\ st.active
             THEN Result(Some(TfMoveCursor(count)), [st EXCEPT !.cursor_offset = count])
             ELSE IF ev = TextFieldActivationHotkey /\ ~st.active
             THEN activate
             ELSE IF ev.code = "Char" /\ st.active
             THEN Edited(InsertedValue(st.value, cursor_offset, ev.ch),
                         cursor_offset + 1)
             ELSE noop
        ELSE IF ev.type = "MouseUpLeft"
        THEN IF HitTarget(hit) = Some(TextFieldSelfUiTarget) /\ st.active
             THEN noop
             ELSE IF mapped_event = Some("Activate") /\ ~st.active
             THEN activate
             ELSE IF mapped_event = Some("Activate") /\ st.active
             THEN noop
             ELSE IF mapped_event \in {Some("Deactivate"), Some("Toggle")} /\ st.active
             THEN deactivate
             ELSE IF mapped_event = Some("Deactivate") /\ ~st.active
             THEN noop
             ELSE IF ToggleActivates(mapped_event, st.active)
             THEN activate
             ELSE noop
        ELSE noop

\* The initial states the field is built with in the model: the default
\* state, and states holding a value with the cursor at its end and at its
\* start (the cursor of a state built from the default with a value).
InitTextFieldState ==
    {TextFieldState(FALSE, <<>>, 0), TextFieldState(FALSE, <<"S", "S">>, 2),
     TextFieldState(FALSE, <<"S", "S">>, 0)}

\* The input events delivered to the text field in the model.
TextFieldInputEvent ==
    {Key(code) : code \in {"Enter", "Esc", "Backspace", "Delete", "Left", "Right",
                           "Home", "End", "Up"}}
    \cup {CharKey(c) : c \in InputChar}
    \cup {Click(p[1], p[2]) : p \in {<<1, 0>>, <<3, 1>>, <<0, 3>>, <<0, 7>>}}
    \cup {MouseOther}

\* with_latest_from(ui_target_area_bufs) followed by the fold and the
\* filter_map: combined is what combine_latest emitted (or None), areas the
\* latest area batch (or None).  The fold runs when both are there.
TextFieldRun(acc, combined, areas) ==
    IF combined = None \/ WithLatestFromOnA(areas, combined[1]) = None
    THEN [acc |-> acc, emitted |-> None]
    ELSE LET r == TextFieldStep(acc, combined[1][1], combined[1][2], areas[1])
         IN  [acc |-> [text_field_state |-> r.text_field_state,
                       saved_text_field_state |-> r.saved_text_field_state,
                       overlay_state |-> r.overlay_state],
              emitted |-> IF r.ev = None
                          THEN None
                          ELSE Some([ev |-> r.ev[1], state |-> r.text_field_state])]

(***************************************************************************)
(* The renderer: every frame reports the area of every UiTarget, in draw   *)
(* order (header, footer, overlays); an overlay that is not drawn reports  *)
(* None.  The rectangles are those of a small terminal.                    *)
(***************************************************************************)
\* menu_rows gives, for each menu, the number of rows of its list; a menu is
\* as high as its rows plus its border.
RenderedArea(ui_target, menu_rows) ==
    CASE ui_target = "StockSymbol" -> Rect(1, 0, 2, 2)
      [] ui_target = "StockName" -> Rect(3, 0, 2, 2)
      [] ui_target = "IndicatorBox" -> Rect(5, 8, 3, 2)
      [] ui_target = "TimeFrameBox" -> Rect(8, 8, 3, 2)
      [] ui_target = "StockSymbolInput" -> Rect(0, 1, 5, 3)
      [] ui_target = "IndicatorList" -> Rect(5, 0, 3, menu_rows[ui_target] + 2)
      [] ui_target = "TimeFrameList" -> Rect(8, 0, 3, menu_rows[ui_target] + 2)

DrawOrder ==
    <<"StockSymbol", "StockName", "IndicatorBox", "TimeFrameBox",
      "StockSymbolInput", "IndicatorList", "TimeFrameList">>

\* The reports of one frame in which the overlays in shown are drawn.
FrameReports(shown, menu_rows) ==
    [i \in 1..Len(DrawOrder) |->
        [ui_target |-> DrawOrder[i],
         area |-> IF DrawOrder[i] \in OverlayUiTarget /\ DrawOrder[i] \notin shown
                  THEN None
                  ELSE Some(RenderedArea(DrawOrder[i], menu_rows))]]

\* The filtered reports pushed one by one through buffer(count) and the
\* map; latest is the with_latest_from buffer the batches end in.
RECURSIVE FeedAreaReports(_, _, _, _)
FeedAreaReports(buf, latest, reports, count) ==
    IF reports = <<>>
    THEN [buf |-> buf, latest |-> latest]
    ELSE LET b == BufferPush(buf, count, Head(reports))
         IN  FeedAreaReports(b.buf,
                             IF b.out = None
                             THEN latest
                             ELSE Some(RenderedAreasReversed(b.out[1])),
                             Tail(reports), count)

\* Menus without rows, for frames in which no menu matters.
NoMenuRows == [t \in {"IndicatorList", "TimeFrameList"} |-> 0]

TextFieldAreaReportPasses(report) == TextFieldAreaFilter(report.ui_target)

(***************************************************************************)
(* Select menu (SelectMenuState) and its reducer (to_select_menu_events).  *)
(***************************************************************************)
\* Longest item list explored.
MaxMenuItems == 3

\* The items a menu is built from: the time frames, in declaration order.
TimeFrameNames ==
    <<"FiveDays", "OneMonth", "ThreeMonths", "SixMonths", "YearToDate",
      "OneYear", "TwoYears", "FiveYears", "TenYears", "Max">>

\* SelectMenuState; selected_index is list_state.selected().
SelectMenuState(active, allow_empty_selection, items, selected_index) ==
    [active |-> active, allow_empty_selection |-> allow_empty_selection,
     items |-> items, selected_index |-> selected_index]

\* The number of rows of the list: one per item, and one for the empty
\* selection where it is allowed.
SelectableRows(st) == Len(st.items) + (IF st.allow_empty_selection THEN 1 ELSE 0)

\* A plausible slip: the row of the empty selection is not discounted.
SelectedWithoutOffset(st) ==
    LET n == st.selected_index[1]
    IN  IF st.selected_index = None
        THEN [panicked |-> FALSE, item |-> None]
        ELSE IF n < Len(st.items)
        THEN [panicked |-> FALSE, item |-> Some(st.items[n + 1])]
        ELSE [panicked |-> TRUE, item |-> None]

\* selected(): the selected item; indexing items out of range panics.
Selected(st) ==
    LET n == st.selected_index[1]
        i == IF st.allow_empty_selection THEN n - 1 ELSE n
    IN  IF st.selected_index = None \/ (st.allow_empty_selection /\ n = 0)
        THEN [panicked |-> FALSE, item |-> None]
        ELSE IF i < Len(st.items)
        THEN [panicked |-> FALSE, item |-> Some(st.items[i + 1])]
        ELSE [panicked |-> TRUE, item |-> None]

\* select_index(n)
SelectIndex(st, n) == [st EXCEPT !.selected_index = Some(n)]

\* select(item): Err(_) leaves the state as it was.  position() gives the
\* first place of the item.
Select(st, item) ==
    IF item = None
    THEN IF st.allow_empty_selection
         THEN [ok |-> TRUE, st |-> SelectIndex(st, 0)]
         ELSE [ok |-> FALSE, st |-> st]
    ELSE LET places == {i \in 1..Len(st.items) : st.items[i] = item[1]}
             position == (CHOOSE i \in places : \A j \in places : i <= j) - 1
         IN  IF places = {}
             THEN [ok |-> FALSE, st |-> st]
             ELSE [ok |-> TRUE,
                   st |-> SelectIndex(st, IF st.allow_empty_selection
                                          THEN position + 1
                                          ELSE position)]

\* A plausible slip: select_prev wraps around from the first row.
SelectPrevWrapping(st) ==
    SelectIndex(st, IF st.selected_index = None \/ st.selected_index = Some(0)
                    THEN SelectableRows(st)
                    ELSE st.selected_index[1] - 1)

\* select_prev(); items is not empty, so l - 1 does not underflow.
SelectPrev(st) ==
    LET l == Len(st.items)
    IN  SelectIndex(st, IF st.selected_index = None
                        THEN IF st.allow_empty_selection THEN l ELSE l - 1
                        ELSE IF st.selected_index[1] > 0
                             THEN st.selected_index[1] - 1
                             ELSE 0)

\* A plausible slip: select_next moves past the last row.
SelectNextUnclamped(st) ==
    SelectIndex(st, IF st.selected_index = None THEN 0 ELSE st.selected_index[1] + 1)

\* select_next()
SelectNext(st) ==
    LET l == IF st.allow_empty_selection THEN Len(st.items) ELSE Len(st.items) - 1
        n == st.selected_index[1]
    IN  SelectIndex(st, IF st.selected_index = None
                        THEN 0
                        ELSE IF n < l THEN n + 1 ELSE n)

\* Rect::inner(&Margin { horizontal: 1, vertical: 1 })
RectInner(area) ==
    IF area.width < 2 \/ area.height < 2
    THEN Rect(0, 0, 0, 0)
    ELSE Rect(area.x + 1, area.y + 1, area.width - 2, area.height - 2)

\* The test point_to_index applies to the inner area: all four edges are
\* taken as inside.
InnerAreaHolds(inner_area, x, y) ==
    /\ RectLeft(inner_area) <= x
    /\ RectRight(inner_area) >= x
    /\ RectTop(inner_area) <= y
    /\ RectBottom(inner_area) >= y

\* A plausible slip: the row is not checked against the number of rows.
PointToIndexUnchecked(st, menu_area, x, y) ==
    LET inner_area == RectInner(menu_area)
    IN  IF InnerAreaHolds(inner_area, x, y)
        THEN [panicked |-> FALSE, index |-> Some(y - RectTop(inner_area))]
        ELSE [panicked |-> FALSE, index |-> None]

\* A plausible slip: the row is counted from the top of the border.
PointToIndexFromBorder(st, menu_area, x, y) ==
    LET inner_area == RectInner(menu_area)
        n == y - RectTop(menu_area)
    IN  IF InnerAreaHolds(inner_area, x, y) /\ n < SelectableRows(st)
        THEN [panicked |-> FALSE, index |-> Some(n)]
        ELSE [panicked |-> FALSE, index |-> None]

\* point_to_index(menu_area, (x, y)); a list higher than the inner area is
\* todo!().
PointToIndex(st, menu_area, x, y) ==
    LET inner_area == RectInner(menu_area)
        n == y - RectTop(inner_area)
    IN  IF InnerAreaHolds(inner_area, x, y)
        THEN IF inner_area.height < Len(st.items)
             THEN [panicked |-> TRUE, index |-> None]
             ELSE IF n < SelectableRows(st)
             THEN [panicked |-> FALSE, index |-> Some(n)]
             ELSE [panicked |-> FALSE, index |-> None]
        ELSE [panicked |-> FALSE, index |-> None]

\* The parameters the time frame menu is built with.
SelectMenuActivationHotkey == CharKey("t")
SelectMenuSelfUiTarget == "TimeFrameList"

\* select_menu_event_map, keyed by Option<UiTarget>.
SelectMenuEventMapGiven ==
    [k \in {Some("TimeFrameBox"), None} |-> IF k = None THEN "Deactivate" ELSE "Toggle"]

\* select_menu_event_map.without(&Some(self_ui_target))
SelectMenuEventMap ==
    [k \in DOMAIN SelectMenuEventMapGiven \ {Some(SelectMenuSelfUiTarget)} |->
        SelectMenuEventMapGiven[k]]

SelectMenuAreaFilter(ui_target) ==
    ui_target = SelectMenuSelfUiTarget \/ Some(ui_target) \in DOMAIN SelectMenuEventMap
SelectMenuAreaBufferCount == Cardinality(DOMAIN SelectMenuEventMap \ {None}) + 1
SelectMenuAreaReportPasses(report) == SelectMenuAreaFilter(report.ui_target)

\* SelectMenuEvent values.
SmEvent(kind) == [kind |-> kind, item |-> None, index |-> 0]
SmAccept(item) == [kind |-> "Accept", item |-> item, index |-> 0]
SmSelectIndex(index) == [kind |-> "SelectIndex", item |-> None, index |-> index]

\* A plausible slip: accepting leaves the saved state as it was.
CommittedMenuStateKeepingSaved(s, saved) == saved

\* The saved state the accepting arms return: the state just accepted.
CommittedMenuState(s, saved) == s

\* A plausible slip: deactivating only clears the active flag and keeps
\* the moved selection.
DeactivatedMenuStateKeepingSelection(st, saved) == [st EXCEPT !.active = FALSE]

\* The state every deactivating arm returns: the saved state.
DeactivatedMenuState(st, saved) == saved

\* The fold step of the reducer; panicked tells that the step ended in a
\* panic (an out-of-range read of items, todo!() or unimplemented!()).
SelectMenuStep(acc, ev, overlay_state, ui_target_areas) ==
    LET st == acc.select_menu_state
        saved == acc.saved_select_menu_state
        Result(e, s, sv, p) ==
            [ev |-> e, select_menu_state |-> s, saved_select_menu_state |-> sv,
             overlay_state |-> overlay_state, panicked |-> p]
        noop == Result(None, st, saved, FALSE)
        activate == Result(Some(SmEvent("Activate")), [saved EXCEPT !.active = TRUE],
                           saved, FALSE)
        deactivate == Result(Some(SmEvent("Deactivate")), DeactivatedMenuState(st, saved),
                             saved, FALSE)
        Accepted(s) ==
            Result(Some(SmAccept(Selected(s).item)), s, CommittedMenuState(s, saved),
                   Selected(s).panicked)
        Moved(s) == Result(Some(SmSelectIndex(s.selected_index[1])), s, saved, FALSE)
        hit == FindHit(ui_target_areas, ev.x, ev.y)
        pointed == PointToIndex(st, hit[1].area, ev.x, ev.y)
        mapped_event ==
            IF HitTarget(hit) \in DOMAIN SelectMenuEventMap
            THEN Some(SelectMenuEventMap[HitTarget(hit)])
            ELSE None
    IN  IF acc.overlay_state # overlay_state
        THEN IF ~(IF overlay_state = "Active" THEN ~st.active ELSE st.active)
             THEN noop
             ELSE IF overlay_state = "Active" THEN activate ELSE deactivate
        ELSE IF ev.type = "Key"
        THEN IF ev.code = "Enter" /\ st.active
             THEN Accepted([st EXCEPT !.active = FALSE])
             ELSE IF ev.code = "Esc" /\ st.active
             THEN deactivate
             ELSE IF ev.code = "Up" /\ st.active
             THEN Moved(SelectPrev(st))
             ELSE IF ev.code = "Down" /\ st.active
             THEN Moved(SelectNext(st))
             ELSE IF ev = SelectMenuActivationHotkey /\ ~st.active
             THEN activate
             ELSE noop
        ELSE IF ev.type = "MouseUpLeft"
        THEN IF HitTarget(hit) = Some(SelectMenuSelfUiTarget) /\ st.active
             THEN IF pointed.panicked
                  THEN Result(None, st, saved, TRUE)
                  ELSE IF pointed.index # None
                  THEN Accepted([SelectIndex(st, pointed.index[1]) EXCEPT !.active = FALSE])
                  ELSE noop
             ELSE IF mapped_event = Some("Activate") /\ ~st.active
             THEN activate
             ELSE IF mapped_event = Some("Activate") /\ st.active
             THEN noop
             ELSE IF mapped_event \in {Some("Deactivate"), Some("Toggle")} /\ st.active
             THEN deactivate
             ELSE IF mapped_event = Some("Deactivate") /\ ~st.active
             THEN noop
             ELSE IF mapped_event = Some("Toggle") /\ ~st.active
             THEN activate
             ELSE noop
        ELSE noop

\* The states a menu is built with in the model: up to MaxMenuItems items,
\* with or without the empty selection, nothing or any row selected.
InitSelectMenuState ==
    UNION {{SelectMenuState(FALSE, c[1], SubSeq(TimeFrameNames, 1, c[2]), sel) :
               sel \in {None} \cup {Some(n) : n \in 0..(c[2] - (IF c[1] THEN 0 ELSE 1))}} :
           c \in BOOLEAN \X (1..MaxMenuItems)}

\* The input events delivered to the menu in the model; the clicks cover the
\* rows of the list, its border, the activator below it and empty screen.
SelectMenuInputEvent ==
    {Key(code) : code \in {"Enter", "Esc", "Up", "Down", "Left"}}
    \cup {SelectMenuActivationHotkey}
    \cup {Click(9, y) : y \in 0..(MaxMenuItems + 2)}
    \cup {Click(8, 1), Click(10, 1), Click(8, 8), Click(0, 7)}
    \cup {MouseOther}

\* with_latest_from(ui_target_area_bufs) followed by the fold and the
\* filter_map, as for the text field.
SelectMenuRun(acc, combined, areas) ==
    IF combined = None \/ WithLatestFromOnA(areas, combined[1]) = None
    THEN [acc |-> acc, emitted |-> None, panicked |-> FALSE]
    ELSE LET r == SelectMenuStep(acc, combined[1][1], combined[1][2], areas[1])
         IN  [acc |-> [select_menu_state |-> r.select_menu_state,
                       saved_select_menu_state |-> r.saved_select_menu_state,
                       overlay_state |-> r.overlay_state],
              emitted |-> IF r.ev = None
                          THEN None
                          ELSE Some([ev |-> r.ev[1], state |-> r.select_menu_state]),
              panicked |-> r.panicked]

(***************************************************************************)
(* The stream combinators on their own: two sources A and B feed one       *)
(* combine_latest and one with_latest_from; the items of A also go through *)
(* one distinct_until_changed and one group_by.                            *)
(***************************************************************************)
\* Number of items the two sources send.
MaxSent == 6

\* The items of source A and of source B.
ItemA == {1, 2, 3}
ItemB == {"x", "y"}

\* The items of source A when it alone sends: they have three keys, one of
\* them shared by two items.
KeyedItem == {1, 2, 3, 4}

\* The key and value functions the group_by is built with.
KeyFunc(x) == x % 3
ValueFunc(x) == x

\* What group_by sends downstream, in order: the announcement of a group
\* and an item sent into the sub-stream of a key.
GroupAnnounced(key) == [kind |-> "group", key |-> key]
GroupItem(key, value) == [kind |-> "item", key |-> key, value |-> value]

\* A plausible slip: every item announces its group again.
GroupByOnItemAnnouncingAlways(key_grouped_map, key, value) ==
    [key_grouped_map |-> key_grouped_map \cup {key},
     out |-> <<GroupAnnounced(key), GroupItem(key, value)>>]

\* A plausible slip: the value goes into the sink of a new group before the
\* group is announced.
GroupByOnItemAnnouncingLate(key_grouped_map, key, value) ==
    [key_grouped_map |-> key_grouped_map \cup {key},
     out |-> <<GroupItem(key, value)>>
             \o (IF key \in key_grouped_map THEN <<>> ELSE <<GroupAnnounced(key)>>)]

\* group_by, an item with this key and value; key_grouped_map is modelled
\* by its key set.  A new key inserts its group and announces it, then the
\* value is sent into the group's sink.
GroupByOnItem(key_grouped_map, key, value) ==
    [key_grouped_map |-> key_grouped_map \cup {key},
     out |-> (IF key \in key_grouped_map THEN <<>> ELSE <<GroupAnnounced(key)>>)
             \o <<GroupItem(key, value)>>]

\* The sizes of the buffers fed with the items of A, one buffer per size.
BufferCounts == {1, 2, 3}

\* switch, a new inner stream: it is subscribed to, and the subscriptions
\* to the earlier inner streams stay.
SwitchOnInner(subscribed, inner) == subscribed \cup {inner}

\* switch, an item x on the inner stream inner: what goes into the sink.
SwitchOnItem(subscribed, inner, x) == IF inner \in subscribed THEN <<x>> ELSE <<>>

\* The switch fed with what group_by sends downstream, every group being
\* an inner stream.  An output is recorded with the inner stream it came
\* from and the inner stream that had arrived last.
RECURSIVE SwitchFeed(_, _)
SwitchFeed(sw, events) ==
    IF events = <<>>
    THEN sw
    ELSE LET e == Head(events)
             items == IF e.kind = "group"
                      THEN <<>>
                      ELSE SwitchOnItem(sw.subscribed, e.key, e.value)
         IN  SwitchFeed(
                 IF e.kind = "group"
                 THEN [sw EXCEPT !.subscribed = SwitchOnInner(@, e.key),
                                 !.latest = Some(e.key)]
                 ELSE [sw EXCEPT !.out = @ \o [i \in 1..Len(items) |->
                                                  [inner |-> e.key,
                                                   item |-> items[i],
                                                   latest |-> sw.latest]]],
                 Tail(events))

\* The branches built on the groups as main builds them, one per key:
\* grouped.filter(|grouped| grouped.key == key).switch(); all of them are
\* merged.
BranchOrder == <<0, 1, 2>>
FilterPasses(branch, key) == key = branch

\* merge, an item x from either side: it goes into the sink.
MergeOnItem(out, x) == Append(out, x)

\* An item of the group key through the switch of every branch, from the
\* i-th branch on, and through the merge.
RECURSIVE BranchesOnItem(_, _, _, _, _)
BranchesOnItem(subscribed, out, i, key, x) ==
    IF i > Len(BranchOrder)
    THEN out
    ELSE LET items == SwitchOnItem(subscribed[BranchOrder[i]], key, x)
         IN  BranchesOnItem(subscribed,
                            IF items = <<>> THEN out ELSE MergeOnItem(out, items[1]),
                            i + 1, key, x)

\* The branches and their merge fed with what group_by sends downstream.
RECURSIVE BranchesFeed(_, _)
BranchesFeed(br, events) ==
    IF events = <<>>
    THEN br
    ELSE LET e == Head(events)
         IN  BranchesFeed(
                 IF e.kind = "group"
                 THEN [br EXCEPT !.subscribed =
                          [b \in DOMAIN @ |->
                              IF FilterPasses(b, e.key)
                              THEN SwitchOnInner(@[b], e.key)
                              ELSE @[b]]]
                 ELSE [br EXCEPT !.out =
                          BranchesOnItem(br.subscribed, @, 1, e.key, e.value)],
                 Tail(events))

(***************************************************************************)
(* Routing of user input events to overlays                                *)
(* (to_grouped_user_input_events, as main calls it).                       *)
(***************************************************************************)
\* hotkey_overlay_map, by the char of KeyCode::Char.
HotkeyOverlayMap ==
    [c \in {"i", "s", "t"} |->
        CASE c = "i" -> "IndicatorList"
          [] c = "s" -> "StockSymbolInput"
          [] c = "t" -> "TimeFrameList"]

\* hotkey_overlay_map.get_by_left(&code).copied()
HotkeyOverlayMapGet(ev) ==
    IF ev.code = "Char" /\ ev.ch \in DOMAIN HotkeyOverlayMap
    THEN Some(HotkeyOverlayMap[ev.ch])
    ELSE None

\* associated_overlay_map
AssociatedOverlayMap ==
    [t \in UiTarget |->
        CASE t \in {"IndicatorBox", "IndicatorList"} -> "IndicatorList"
          [] t \in {"StockName", "StockSymbol", "StockSymbolInput"} -> "StockSymbolInput"
          [] t \in {"TimeFrameBox", "TimeFrameList"} -> "TimeFrameList"]

\* A plausible slip: the clicked target itself is taken for its overlay.
AssociatedOverlayMapGetClicked(clicked) == Some(clicked)

\* associated_overlay_map.get(clicked).copied()
AssociatedOverlayMapGet(clicked) ==
    IF clicked \in DOMAIN AssociatedOverlayMap
    THEN Some(AssociatedOverlayMap[clicked])
    ELSE None

\* The filter on the area reports and the size of the buffer they fill.
RoutingAreaReportPasses(report) == report.ui_target \in DOMAIN AssociatedOverlayMap
RoutingAreaBufferCount == Cardinality(DOMAIN AssociatedOverlayMap)

\* A plausible slip: a key press is looked up in the hotkey table even
\* while an overlay is active.
GroupKeyByHotkeyAlways(ev, ui_target_areas, active_overlay) ==
    IF ev.type = "Key"
    THEN HotkeyOverlayMapGet(ev)
    ELSE IF ev.type = "MouseUpLeft"
         THEN LET hit == FindHit(ui_target_areas, ev.x, ev.y)
              IN  IF hit = None
                  THEN active_overlay
                  ELSE AssociatedOverlayMapGet(hit[1].ui_target)
         ELSE None

\* The key function of the group_by: the overlay an event is grouped under.
GroupKey(ev, ui_target_areas, active_overlay) ==
    IF ev.type = "Key"
    THEN IF active_overlay # None
         THEN active_overlay
         ELSE HotkeyOverlayMapGet(ev)
    ELSE IF ev.type = "MouseUpLeft"
         THEN LET hit == FindHit(ui_target_areas, ev.x, ev.y)
              IN  IF hit = None
                  THEN active_overlay
                  ELSE AssociatedOverlayMapGet(hit[1].ui_target)
         ELSE None

\* The rows of the two menus in the frames the routing is explored with.
RoutingMenuRows == [t \in {"IndicatorList", "TimeFrameList"} |->
                       IF t = "IndicatorList" THEN 1 ELSE 2]

\* The user input events the routing is explored with: hotkeys, other
\* keys, clicks inside, on the edges of and outside the areas, and another
\* mouse event.
RoutingInputEvent ==
    {CharKey("i"), CharKey("s"), CharKey("t"), CharKey("q"), Key("Enter"), MouseOther}
    \cup {Click(1, 0), Click(3, 1), Click(0, 3), Click(0, 4), Click(5, 1), Click(5, 3),
          Click(9, 1), Click(8, 8), Click(5, 8), Click(0, 7)}

\* The values of the active-overlays stream.
ActiveOverlayValue == {None} \cup {Some(t) : t \in OverlayUiTarget}

(***************************************************************************)
(* State.                                                                  *)
(***************************************************************************)
VARIABLES
    acc_overlay_state_map,   \* arbitration fold: accumulated map
    overlay_state_changeset, \* arbitration fold: last changeset
    overlay_state_queue,     \* Rc<RefCell<VecDeque<(UiTarget, OverlayState)>>>
    acc_active_overlay,      \* to_active_overlays: fold accumulator
    active_overlay_buf,      \* to_active_overlays: distinct_until_changed buffer
    pc,                      \* main loop position: "flush" or "input"
    iteration,               \* main loop iteration (history)
    overlay_states_sent,     \* sends on overlay_states in the latest flush (history)
    active_overlays_sent,    \* active-overlay emissions in the latest flush (history)
    panicked,                \* the process has panicked
    tf_buf_a,                \* text field: combine_latest buf_a (last input event)
    tf_buf_b,                \* text field: combine_latest buf_b (last overlay state)
    tf_distinct_buf,         \* text field: distinct_until_changed buffer of overlay states
    tf_area_buf,             \* text field: buffer(n) of area reports
    tf_areas,                \* text field: with_latest_from buffer (latest area batch)
    tf_acc,                  \* text field: fold accumulator (state, saved state, overlay state)
    tf_emitted,              \* text field: what the latest step emitted downstream (history)
    tf_prev,                 \* text field: the accumulator before the latest step (history)
    tf_trigger,              \* text field: which stream the latest step came from (history)
    tf_applied,              \* text field: how often the fold took the arms of the latest
                             \* input event, counted up to 2 (history)
    sm_buf_a,                \* select menu: combine_latest buf_a (last input event)
    sm_buf_b,                \* select menu: combine_latest buf_b (last overlay state)
    sm_distinct_buf,         \* select menu: distinct_until_changed buffer of overlay states
    sm_area_buf,             \* select menu: buffer(n) of area reports
    sm_areas,                \* select menu: with_latest_from buffer (latest area batch)
    sm_acc,                  \* select menu: fold accumulator (state, saved state, overlay state)
    sm_panicked,             \* select menu: a step of the reducer has panicked
    sm_emitted,              \* select menu: what the latest step emitted downstream (history)
    sm_prev,                 \* select menu: the accumulator before the latest step (history)
    sm_trigger,              \* select menu: which stream the latest step came from (history)
    lab_sent,                \* combinators: the items sent so far, with their source (history)
    cl_buf_a,                \* combinators: combine_latest buf_a
    cl_buf_b,                \* combinators: combine_latest buf_b
    cl_out,                  \* combinators: what combine_latest has emitted (history)
    wl_buf_b,                \* combinators: with_latest_from buf_b
    wl_out,                  \* combinators: what with_latest_from has emitted (history)
    du_buf,                  \* combinators: distinct_until_changed buf
    du_out,                  \* combinators: what distinct_until_changed has emitted (history)
    gb_key_grouped_map,      \* combinators: the keys of group_by's key_grouped_map
    gb_out,                  \* combinators: what group_by has sent downstream (history)
    bf_buf,                  \* combinators: the buf of buffer(n), for each n
    bf_out,                  \* combinators: the batches buffer(n) has emitted, for each n (history)
    sw_subscribed,           \* combinators: the inner streams the switch is subscribed to
    sw_latest,               \* combinators: the inner stream that arrived last (history)
    sw_out,                  \* combinators: what the switch has emitted (history)
    br_subscribed,           \* combinators: the inner streams each branch's switch is subscribed to
    mg_out,                  \* combinators: what the merge of the branches has emitted (history)
    rt_area_buf,             \* routing: buffer(n) of area reports
    rt_batch,                \* routing: the latest full buffer of area reports (history)
    rt_areas,                \* routing: with_latest_from buffer (latest area batch)
    rt_active_overlay,       \* routing: with_latest_from buffer (latest active overlay)
    rt_key_grouped_map,      \* routing: the keys of group_by's key_grouped_map
    rt_routed,               \* routing: the item the latest input event reached group_by as (history)
    rt_hit,                  \* routing: the target the latest click hit (history)
    rt_out,                  \* routing: what group_by sent downstream in the latest step (history)
    rt_trigger,              \* routing: which stream the latest step came from (history)
    stock_symbol_buf,        \* stock: distinct_until_changed buffer of to_stock_profiles
    stock_profile_map,       \* stock: the profiles loaded so far, by symbol
    stock_profiles_out,      \* stock: what to_stock_profiles emitted in the latest step (history)
    stock_bars_map,          \* stock: the bars and covered ranges loaded so far, by symbol
    stock_bar_sets_out,      \* stock: what to_stock_bar_sets emitted in the latest step (history)
    stock_fetched,           \* stock: the outcome of the latest step's fetches (history)
    stock_panicked,          \* stock: a fetch has panicked and unwound the main loop
    menu_state,              \* widget: a SelectMenuState
    menu_called,             \* widget: the latest call on it and what it returned (history)
    should_quit,             \* main: the flag the loop tests
    dr_buf_ev,               \* date ranges: combine_latest buffer of the input events
    dr_buf_symbol,           \* date ranges: distinct and combine_latest buffer of the symbols
    dr_buf_time_frame,       \* date ranges: distinct and combine_latest buffer of the time frames
    dr_active_overlay,       \* date ranges: with_latest_from buffer (latest active overlay)
    dr_acc,                  \* date ranges: the fold's accumulator
    dr_distinct_buf,         \* date ranges: buffer of the closing distinct_until_changed
    dr_latest,               \* date ranges: the latest item on the date_ranges broadcast
    dr_panicked,             \* date ranges: an unwrap in the fold has panicked
    dr_prev,                 \* date ranges: dr_latest before the latest step (history)
    dr_trigger,              \* date ranges: which stream the latest step came from (history)
    dr_steps                 \* date ranges: the number of items sent so far

arbVars ==
    <<acc_overlay_state_map, overlay_state_changeset, overlay_state_queue,
      acc_active_overlay, active_overlay_buf, pc, iteration,
      overlay_states_sent, active_overlays_sent, panicked>>

tfVars ==
    <<tf_buf_a, tf_buf_b, tf_distinct_buf, tf_area_buf, tf_areas, tf_acc,
      tf_emitted, tf_prev, tf_trigger, tf_applied>>

smVars ==
    <<sm_buf_a, sm_buf_b, sm_distinct_buf, sm_area_buf, sm_areas, sm_acc,
      sm_panicked, sm_emitted, sm_prev, sm_trigger>>

labVars ==
    <<lab_sent, cl_buf_a, cl_buf_b, cl_out, wl_buf_b, wl_out, du_buf, du_out,
      gb_key_grouped_map, gb_out, bf_buf, bf_out, sw_subscribed, sw_latest,
      sw_out, br_subscribed, mg_out>>

rtVars ==
    <<rt_area_buf, rt_batch, rt_areas, rt_active_overlay, rt_key_grouped_map,
      rt_routed, rt_hit, rt_out, rt_trigger>>

\* The variables of the components added after the reducers.
stVars ==
    <<stock_symbol_buf, stock_profile_map, stock_profiles_out, stock_bars_map,
      stock_bar_sets_out, stock_fetched, stock_panicked>>

wgVars == <<menu_state, menu_called>>

mnVars == <<should_quit>>

drVars ==
    <<dr_buf_ev, dr_buf_symbol, dr_buf_time_frame, dr_active_overlay, dr_acc,
      dr_distinct_buf, dr_latest, dr_panicked, dr_prev, dr_trigger, dr_steps>>

moreVars == <<labVars, rtVars, stVars, wgVars, mnVars, drVars>>

\* What the actions of one component leave unchanged.
beyondLabVars == <<arbVars, tfVars, smVars, rtVars, stVars, wgVars, mnVars, drVars>>
beyondRtVars == <<arbVars, tfVars, smVars, labVars, stVars, wgVars, mnVars, drVars>>
beyondStVars == <<arbVars, tfVars, smVars, labVars, rtVars, wgVars, mnVars, drVars>>
beyondWgVars == <<arbVars, tfVars, smVars, labVars, rtVars, stVars, mnVars, drVars>>
beyondMainVars == <<smVars, labVars, stVars, wgVars, drVars>>
beyondDrVars == <<arbVars, tfVars, smVars, labVars, rtVars, stVars, wgVars, mnVars>>

vars == <<arbVars, tfVars, smVars, moreVars>>

(***************************************************************************)
(* Arbitration and main loop: initial state and actions.                   *)
(***************************************************************************)
\* The state when the main loop is entered: the graph is built, None was
\* sent on active_overlays and the initial overlay states were fed.
ArbInit ==
    LET fed == SendEach([map |-> EmptyMap, changeset |-> EmptyMap,
                         acc_active_overlay |-> None, active_overlay_buf |-> None,
                         active_overlays_sent |-> <<>>, overlay_states_sent |-> <<>>,
                         panicked |-> FALSE],
                        [i \in 1..Len(InitialOverlayStates) |->
                            [ui_target |-> InitialOverlayStates[i].ui_target,
                             overlay_state |-> InitialOverlayStates[i].overlay_state,
                             computed_at |-> 0]],
                        NoEcho(InitialOverlayStates), 1, 0)
    IN  /\ acc_overlay_state_map = EmptyMap
        /\ overlay_state_changeset = EmptyMap
        /\ overlay_state_queue = <<>>
        /\ acc_active_overlay = fed.acc_active_overlay
        /\ active_overlay_buf = fed.active_overlay_buf
        /\ pc = "flush"
        /\ iteration = 1
        /\ overlay_states_sent = <<>>
        /\ active_overlays_sent = <<>>
        /\ panicked = FALSE

\* Start of a loop iteration: the queue is drained and every entry is sent
\* on overlay_states; the active-overlay fold and the reducers observe each
\* send, and a reducer may answer with its Activate / Deactivate event.
FlushOverlayStates ==
    /\ pc = "flush"
    /\ ~panicked
    /\ \E echo \in [1..Len(overlay_state_queue) -> BOOLEAN] :
        LET st == SendEach([map |-> acc_overlay_state_map,
                            changeset |-> overlay_state_changeset,
                            acc_active_overlay |-> acc_active_overlay,
                            active_overlay_buf |-> active_overlay_buf,
                            active_overlays_sent |-> <<>>,
                            overlay_states_sent |-> <<>>,
                            panicked |-> FALSE],
                           SubSeq(overlay_state_queue, 1,
                                  Len(overlay_state_queue)
                                    - Len(DrainedQueue(overlay_state_queue))),
                           echo, 1, iteration)
        IN  /\ acc_overlay_state_map' = st.map
            /\ overlay_state_changeset' = st.changeset
            /\ acc_active_overlay' = st.acc_active_overlay
            /\ active_overlay_buf' = st.active_overlay_buf
            /\ active_overlays_sent' = st.active_overlays_sent
            /\ overlay_states_sent' = st.overlay_states_sent
            /\ panicked' = st.panicked
    /\ overlay_state_queue' = DrainedQueue(overlay_state_queue)
    /\ pc' = "input"
    /\ UNCHANGED <<iteration, tfVars, smVars, moreVars>>

\* input_events.send(next event) where no reducer emits an overlay event
\* (a tick, or an event that is a no-op for the reducer it is routed to).
SendInputEventQuiet ==
    /\ pc = "input"
    /\ ~panicked
    /\ iteration < MaxIterations
    /\ pc' = "flush"
    /\ iteration' = iteration + 1
    /\ UNCHANGED <<acc_overlay_state_map, overlay_state_changeset, overlay_state_queue,
                   acc_active_overlay, active_overlay_buf, overlay_states_sent,
                   active_overlays_sent, panicked, tfVars, smVars, moreVars>>

\* input_events.send(next event) where the reducer the event is routed to
\* emits one overlay event: the arbitration fold runs and its subscriber
\* queues the changeset.
SendInputEvent ==
    /\ pc = "input"
    /\ ~panicked
    /\ iteration < MaxIterations
    /\ \E ui_target \in OverlayUiTarget, kind \in OverlayEventKind :
        LET arb == ArbitrationStep(acc_overlay_state_map, ui_target, kind)
        IN  /\ acc_overlay_state_map' = arb.map
            /\ overlay_state_changeset' = arb.changeset
            /\ \E order \in ChangesetIterationOrders(arb.changeset) :
                overlay_state_queue' =
                    PushChangeset(overlay_state_queue, arb.changeset, order, iteration)
    /\ pc' = "flush"
    /\ iteration' = iteration + 1
    /\ UNCHANGED <<acc_active_overlay, active_overlay_buf, overlay_states_sent,
                   active_overlays_sent, panicked, tfVars, smVars, moreVars>>

(***************************************************************************)
(* Text field: initial state and actions.  The reducer is driven by any    *)
(* sequence of input events, overlay states and rendered frames.           *)
(***************************************************************************)
\* The reducer as built from init_text_field_state, before any item.
TextFieldConstructed(init_text_field_state) ==
    /\ tf_buf_a = None
    /\ tf_buf_b = None
    /\ tf_distinct_buf = None
    /\ tf_area_buf = <<>>
    /\ tf_areas = None
    /\ tf_acc = [text_field_state |-> init_text_field_state,
                 saved_text_field_state |-> init_text_field_state,
                 overlay_state |-> OverlayStateDefault]
    /\ tf_emitted = None
    /\ tf_prev = tf_acc
    /\ tf_trigger = "none"
    /\ tf_applied = 0

\* The fold runs on what combine_latest emitted and takes the arms of the
\* input event: the overlay state it comes with is the accumulated one.
TextFieldApplies(acc, combined, areas) ==
    /\ combined # None
    /\ areas # None
    /\ acc.overlay_state = combined[1][2]

TextFieldInit == \E init \in InitTextFieldState : TextFieldConstructed(init)

\* An input event arrives on the reducer's input stream.
TextFieldInput ==
    \E ev \in TextFieldInputEvent :
        /\ ev.code = "Char" => Len(tf_acc.text_field_state.value) < MaxValueLen
        /\ LET run == TextFieldRun(tf_acc, CombineLatestOnA(tf_buf_b, ev), tf_areas)
           IN  /\ tf_buf_a' = Some(ev)
               /\ tf_acc' = run.acc
               /\ tf_emitted' = run.emitted
        /\ tf_prev' = tf_acc
        /\ tf_trigger' = "input"
        /\ tf_applied' = IF TextFieldApplies(tf_acc, CombineLatestOnA(tf_buf_b, ev), tf_areas)
                         THEN 1
                         ELSE 0
        /\ UNCHANGED <<tf_buf_b, tf_distinct_buf, tf_area_buf, tf_areas, arbVars, smVars, moreVars>>

\* The reducer's side of an overlay state of the field's own target.
TextFieldOnOverlayState(overlay_state) ==
    /\ IF DistinctUntilChangedEmits(tf_distinct_buf, overlay_state)
       THEN LET run == TextFieldRun(tf_acc, CombineLatestOnB(tf_buf_a, overlay_state),
                                    tf_areas)
            IN  /\ tf_distinct_buf' = Some(overlay_state)
                /\ tf_buf_b' = Some(overlay_state)
                /\ tf_acc' = run.acc
                /\ tf_emitted' = run.emitted
                /\ tf_applied' =
                       IF TextFieldApplies(tf_acc, CombineLatestOnB(tf_buf_a, overlay_state),
                                           tf_areas)
                       THEN IF tf_applied = 0 THEN 1 ELSE 2
                       ELSE tf_applied
       ELSE /\ tf_emitted' = None
            /\ UNCHANGED <<tf_distinct_buf, tf_buf_b, tf_acc, tf_applied>>
    /\ tf_prev' = tf_acc
    /\ tf_trigger' = "overlay"
    /\ UNCHANGED <<tf_buf_a, tf_area_buf, tf_areas>>

\* An overlay state of the field's own target arrives.
TextFieldOverlayState ==
    \E overlay_state \in OverlayState :
        /\ TextFieldOnOverlayState(overlay_state)
        /\ UNCHANGED <<arbVars, smVars, moreVars>>

\* A (target, overlay state) pair is sent on the overlay-states broadcast:
\* it goes through to_active_overlays, and the pairs of the field's own
\* target, filtered by their key, reach the field's reducer.
OverlayStatesSend ==
    \E ui_target \in {TextFieldSelfUiTarget, SelectMenuSelfUiTarget},
       overlay_state \in OverlayState :
        LET acc == ActiveOverlayStep(acc_active_overlay, ui_target, overlay_state)
            emits == DistinctUntilChangedEmits(active_overlay_buf, acc)
        IN  /\ acc_active_overlay' = acc
            /\ active_overlay_buf' = IF emits THEN Some(acc) ELSE active_overlay_buf
            /\ active_overlays_sent' = IF emits THEN <<acc>> ELSE <<>>
            /\ overlay_states_sent' =
                   <<[ui_target |-> ui_target, overlay_state |-> overlay_state,
                      computed_at |-> 0, sent_at |-> 0]>>
            /\ IF ui_target = TextFieldSelfUiTarget
               THEN TextFieldOnOverlayState(overlay_state)
               ELSE /\ tf_emitted' = None
                    /\ tf_prev' = tf_acc
                    /\ tf_trigger' = "overlay"
                    /\ UNCHANGED <<tf_buf_a, tf_buf_b, tf_distinct_buf, tf_area_buf,
                                   tf_areas, tf_acc, tf_applied>>
            /\ UNCHANGED <<acc_overlay_state_map, overlay_state_changeset,
                           overlay_state_queue, pc, iteration, panicked,
                           smVars, moreVars>>

\* The renderer draws a frame and reports every area.
TextFieldFrame ==
    \E shown \in SUBSET {TextFieldSelfUiTarget} :
        LET fed == FeedAreaReports(tf_area_buf, tf_areas,
                                   SelectSeq(FrameReports(shown, NoMenuRows),
                                             TextFieldAreaReportPasses),
                                   TextFieldAreaBufferCount)
        IN  /\ tf_area_buf' = fed.buf
            /\ tf_areas' = fed.latest
            /\ tf_emitted' = None
            /\ tf_prev' = tf_acc
            /\ tf_trigger' = "frame"
            /\ UNCHANGED <<tf_buf_a, tf_buf_b, tf_distinct_buf, tf_acc, tf_applied,
                           arbVars, smVars, moreVars>>

(***************************************************************************)
(* Select menu: initial state and actions, as for the text field.          *)
(***************************************************************************)
\* The reducer as built from init_select_menu_state, before any item.
SelectMenuConstructed(init_select_menu_state) ==
    /\ sm_buf_a = None
    /\ sm_buf_b = None
    /\ sm_distinct_buf = None
    /\ sm_area_buf = <<>>
    /\ sm_areas = None
    /\ sm_acc = [select_menu_state |-> init_select_menu_state,
                 saved_select_menu_state |-> init_select_menu_state,
                 overlay_state |-> OverlayStateDefault]
    /\ sm_panicked = FALSE
    /\ sm_emitted = None
    /\ sm_prev = sm_acc
    /\ sm_trigger = "none"

SelectMenuInit == \E init \in InitSelectMenuState : SelectMenuConstructed(init)

\* An input event arrives on the reducer's input stream.
SelectMenuInput ==
    \E ev \in SelectMenuInputEvent :
        /\ ~sm_panicked
        /\ LET run == SelectMenuRun(sm_acc, CombineLatestOnA(sm_buf_b, ev), sm_areas)
           IN  /\ sm_buf_a' = Some(ev)
               /\ sm_acc' = run.acc
               /\ sm_emitted' = run.emitted
               /\ sm_panicked' = run.panicked
        /\ sm_prev' = sm_acc
        /\ sm_trigger' = "input"
        /\ UNCHANGED <<sm_buf_b, sm_distinct_buf, sm_area_buf, sm_areas, arbVars, tfVars, moreVars>>

\* An overlay state of the menu's own target arrives.
SelectMenuOverlayState ==
    \E overlay_state \in OverlayState :
        /\ ~sm_panicked
        /\ IF DistinctUntilChangedEmits(sm_distinct_buf, overlay_state)
           THEN LET run == SelectMenuRun(sm_acc, CombineLatestOnB(sm_buf_a, overlay_state),
                                         sm_areas)
                IN  /\ sm_distinct_buf' = Some(overlay_state)
                    /\ sm_buf_b' = Some(overlay_state)
                    /\ sm_acc' = run.acc
                    /\ sm_emitted' = run.emitted
                    /\ sm_panicked' = run.panicked
           ELSE /\ sm_emitted' = None
                /\ UNCHANGED <<sm_distinct_buf, sm_buf_b, sm_acc, sm_panicked>>
        /\ sm_prev' = sm_acc
        /\ sm_trigger' = "overlay"
        /\ UNCHANGED <<sm_buf_a, sm_area_buf, sm_areas, arbVars, tfVars, moreVars>>

\* The renderer draws a frame and reports every area; the menu is drawn
\* with the rows of its state.
SelectMenuFrame ==
    \E shown \in SUBSET {SelectMenuSelfUiTarget} :
        LET menu_rows == [NoMenuRows EXCEPT ![SelectMenuSelfUiTarget] =
                              SelectableRows(sm_acc.select_menu_state)]
            fed == FeedAreaReports(sm_area_buf, sm_areas,
                                   SelectSeq(FrameReports(shown, menu_rows),
                                             SelectMenuAreaReportPasses),
                                   SelectMenuAreaBufferCount)
        IN  /\ ~sm_panicked
            /\ sm_area_buf' = fed.buf
            /\ sm_areas' = fed.latest
            /\ sm_emitted' = None
            /\ sm_prev' = sm_acc
            /\ sm_trigger' = "frame"
            /\ UNCHANGED <<sm_buf_a, sm_buf_b, sm_distinct_buf, sm_acc, sm_panicked,
                           arbVars, tfVars, moreVars>>

(***************************************************************************)
(* The combinators on their own: initial state and actions.                *)
(***************************************************************************)
\* The combinators as built, before any item.
CombinatorsConstructed ==
    /\ lab_sent = <<>>
    /\ cl_buf_a = None
    /\ cl_buf_b = None
    /\ cl_out = <<>>
    /\ wl_buf_b = None
    /\ wl_out = <<>>
    /\ du_buf = None
    /\ du_out = <<>>
    /\ gb_key_grouped_map = {}
    /\ gb_out = <<>>
    /\ bf_buf = [n \in BufferCounts |-> <<>>]
    /\ bf_out = [n \in BufferCounts |-> <<>>]
    /\ sw_subscribed = {}
    /\ sw_latest = None
    /\ sw_out = <<>>
    /\ br_subscribed = [b \in Range(BranchOrder) |-> {}]
    /\ mg_out = <<>>

\* Appends to out the item an Option holds, if any.
Emit(out, emitted) == IF emitted = None THEN out ELSE Append(out, emitted[1])

\* Source A sends the item a.
SendItemA(a) ==
        /\ Len(lab_sent) < MaxSent
        /\ lab_sent' = Append(lab_sent, [stream |-> "A", item |-> a])
        /\ cl_buf_a' = Some(a)
        /\ cl_out' = Emit(cl_out, CombineLatestOnA(cl_buf_b, a))
        /\ wl_out' = Emit(wl_out, WithLatestFromOnA(wl_buf_b, a))
        /\ IF DistinctUntilChangedEmits(du_buf, a)
           THEN du_buf' = Some(a) /\ du_out' = Append(du_out, a)
           ELSE UNCHANGED <<du_buf, du_out>>
        /\ LET sent == GroupByOnItem(gb_key_grouped_map, KeyFunc(a), ValueFunc(a))
               sw == SwitchFeed([subscribed |-> sw_subscribed, latest |-> sw_latest,
                                 out |-> sw_out], sent.out)
               br == BranchesFeed([subscribed |-> br_subscribed, out |-> mg_out],
                                  sent.out)
           IN  /\ gb_key_grouped_map' = sent.key_grouped_map
               /\ gb_out' = gb_out \o sent.out
               /\ sw_subscribed' = sw.subscribed
               /\ sw_latest' = sw.latest
               /\ sw_out' = sw.out
               /\ br_subscribed' = br.subscribed
               /\ mg_out' = br.out
        /\ bf_buf' = [n \in BufferCounts |-> BufferPush(bf_buf[n], n, a).buf]
        /\ bf_out' = [n \in BufferCounts |->
                          Emit(bf_out[n], BufferPush(bf_buf[n], n, a).out)]
        /\ UNCHANGED <<cl_buf_b, wl_buf_b, beyondLabVars>>

\* Source A sends an item, source B sending too.
SendA == \E a \in ItemA : SendItemA(a)

\* Source A sends an item, being the only source.
SendKeyed == \E a \in KeyedItem : SendItemA(a)

\* Source B sends the item b.
SendB ==
    \E b \in ItemB :
        /\ Len(lab_sent) < MaxSent
        /\ lab_sent' = Append(lab_sent, [stream |-> "B", item |-> b])
        /\ cl_buf_b' = Some(b)
        /\ cl_out' = Emit(cl_out, CombineLatestOnB(cl_buf_a, b))
        /\ wl_buf_b' = Some(b)
        /\ UNCHANGED <<cl_buf_a, wl_out, du_buf, du_out, gb_key_grouped_map, gb_out,
                       bf_buf, bf_out, sw_subscribed, sw_latest, sw_out,
                       br_subscribed, mg_out, beyondLabVars>>

(***************************************************************************)
(* Routing: initial state and actions.                                     *)
(***************************************************************************)
\* The routing as built, before any item.
RoutingConstructed ==
    /\ rt_area_buf = <<>>
    /\ rt_batch = <<>>
    /\ rt_areas = None
    /\ rt_active_overlay = None
    /\ rt_key_grouped_map = {}
    /\ rt_routed = None
    /\ rt_hit = None
    /\ rt_out = <<>>
    /\ rt_trigger = "none"

\* The last full buffer among the reports pushed so far, if one filled.
LatestBatch(batch, buf, reports, count) ==
    LET all == buf \o reports
        n == Len(all) \div count
    IN  IF n = 0 THEN batch ELSE SubSeq(all, (n - 1) * count + 1, n * count)

\* A frame is drawn: every target reports its area, the overlays in shown
\* being drawn.
RoutingFrame ==
    \E shown \in SUBSET OverlayUiTarget :
        LET reports == SelectSeq(FrameReports(shown, RoutingMenuRows),
                                 RoutingAreaReportPasses)
            fed == FeedAreaReports(rt_area_buf, rt_areas, reports,
                                   RoutingAreaBufferCount)
        IN  /\ rt_area_buf' = fed.buf
            /\ rt_areas' = fed.latest
            /\ rt_batch' = LatestBatch(rt_batch, rt_area_buf, reports,
                                       RoutingAreaBufferCount)
            /\ rt_routed' = None
            /\ rt_hit' = None
            /\ rt_out' = <<>>
            /\ rt_trigger' = "frame"
            /\ UNCHANGED <<rt_active_overlay, rt_key_grouped_map,
                           beyondRtVars>>

\* An item on active_overlays.
RoutingActiveOverlay ==
    \E active_overlay \in ActiveOverlayValue :
        /\ rt_active_overlay' = Some(active_overlay)
        /\ rt_routed' = None
        /\ rt_hit' = None
        /\ rt_out' = <<>>
        /\ rt_trigger' = "active_overlay"
        /\ UNCHANGED <<rt_area_buf, rt_batch, rt_areas, rt_key_grouped_map,
                       beyondRtVars>>

\* An item on user_input_events: through the two with_latest_from into the
\* group_by.
RoutingInput ==
    \E ev \in RoutingInputEvent :
        LET with_areas == WithLatestFromOnA(rt_areas, ev)
            with_active == IF with_areas = None
                           THEN None
                           ELSE WithLatestFromOnA(rt_active_overlay, with_areas[1])
        IN  /\ rt_trigger' = "input"
            /\ IF with_active = None
               THEN /\ rt_routed' = None
                    /\ rt_hit' = None
                    /\ rt_out' = <<>>
                    /\ UNCHANGED rt_key_grouped_map
               ELSE LET ui_target_areas == with_active[1][1][2]
                        active_overlay == with_active[1][2]
                        key == GroupKey(ev, ui_target_areas, active_overlay)
                        sent == GroupByOnItem(rt_key_grouped_map, key, ev)
                    IN  /\ rt_routed' = Some([ev |-> ev,
                                              ui_target_areas |-> ui_target_areas,
                                              active_overlay |-> active_overlay,
                                              key |-> key])
                        /\ rt_hit' = IF ev.type = "MouseUpLeft"
                                     THEN HitTarget(FindHit(ui_target_areas, ev.x, ev.y))
                                     ELSE None
                        /\ rt_out' = sent.out
                        /\ rt_key_grouped_map' = sent.key_grouped_map
            /\ UNCHANGED <<rt_area_buf, rt_batch, rt_areas, rt_active_overlay,
                           beyondRtVars>>

(***************************************************************************)
(* Stock data: to_stock_profiles and to_stock_bar_sets.                    *)
(***************************************************************************)
\* The symbols sent on stock_symbols.
StockSymbols == {"A", "B"}

\* The seconds the date ranges and the bars are taken from.
Timestamps == 0..2

\* The date ranges sent on date_ranges: None or Some(start..end), end excluded.
DateRanges == {None, Some(<<0, 2>>), Some(<<1, 3>>)}

\* What the calls of the data-fetch collaborator in one step come to:
\* all of them Ok(_), or one of them Err(_).
FetchOutcomes == {"Ok", "Err"}

\* The handler of to_stock_profiles for a symbol that passed
\* distinct_until_changed; loaded is what Profile::load returns if called.
\* expect() panics on Err(_): nothing is inserted and nothing is emitted.
ToStockProfilesStep(map, stock_symbol, loaded) ==
    IF stock_symbol \in DOMAIN map
    THEN [map |-> map, out |-> Some(map[stock_symbol]),
          fetched |-> "none", panicked |-> FALSE]
    ELSE IF loaded = "Err"
         THEN [map |-> map, out |-> None, fetched |-> "Err", panicked |-> TRUE]
         ELSE [map |-> [k \in DOMAIN map \cup {stock_symbol} |->
                            IF k = stock_symbol THEN stock_symbol ELSE map[k]],
               out |-> Some(stock_symbol), fetched |-> "Ok", panicked |-> FALSE]

\* The handler of to_stock_bar_sets for one (stock_symbol, time_frame,
\* date_range); retrieved is what the retrievals come to if any is made, bars
\* the timestamps of the bars they return.  Some(date_range): one retrieval
\* for each interval of the range not yet covered.  None: one retrieval for the
\* time frame's interval, covering from its first bar to its last.  expect()
\* panics on Err(_): nothing is emitted and the map entry is not written.
ToStockBarSetsStep(map, stock_symbol, date_range, retrieved, bars) ==
    LET entry == IF stock_symbol \in DOMAIN map
                 THEN map[stock_symbol]
                 ELSE [stock_bar_set |-> {}, covered_date_ranges |-> {}]
        uncovered_date_ranges ==
            IF date_range = None
            THEN {}
            ELSE (date_range[1][1]..(date_range[1][2] - 1)) \ entry.covered_date_ranges
        called == date_range = None \/ uncovered_date_ranges # {}
        returned == IF date_range = None THEN bars ELSE bars \cap uncovered_date_ranges
        first_bar == CHOOSE b \in returned : \A c \in returned : b <= c
        last_bar == CHOOSE b \in returned : \A c \in returned : c <= b
        loaded ==
            IF ~called
            THEN entry
            ELSE [stock_bar_set |-> entry.stock_bar_set \cup returned,
                  covered_date_ranges |->
                      IF date_range # None
                      THEN entry.covered_date_ranges \cup uncovered_date_ranges
                      ELSE IF returned # {}
                           THEN entry.covered_date_ranges \cup (first_bar..last_bar)
                           ELSE entry.covered_date_ranges]
    IN  IF called /\ retrieved = "Err"
        THEN [map |-> map, out |-> None, fetched |-> "Err", panicked |-> TRUE]
        ELSE [map |-> [k \in DOMAIN map \cup {stock_symbol} |->
                           IF k = stock_symbol THEN loaded ELSE map[k]],
              out |-> Some(loaded.stock_bar_set),
              fetched |-> IF called THEN "Ok" ELSE "none", panicked |-> FALSE]

\* The stock streams as built, before any symbol.
StockConstructed ==
    /\ stock_symbol_buf = None
    /\ stock_profile_map = <<>>
    /\ stock_profiles_out = None
    /\ stock_bars_map = <<>>
    /\ stock_bar_sets_out = None
    /\ stock_fetched = "none"
    /\ stock_panicked = FALSE

\* A symbol is sent on stock_symbols from inside the main loop and reaches
\* to_stock_profiles; a panic unwinds the loop, so nothing is sent after it.
StockSymbolSend ==
    \E stock_symbol \in StockSymbols, loaded \in FetchOutcomes :
        /\ ~stock_panicked
        /\ stock_symbol_buf' = Some(stock_symbol)
        /\ IF DistinctUntilChangedEmits(stock_symbol_buf, stock_symbol)
           THEN LET r == ToStockProfilesStep(stock_profile_map, stock_symbol, loaded)
                IN  /\ stock_profile_map' = r.map
                    /\ stock_profiles_out' = r.out
                    /\ stock_fetched' = r.fetched
                    /\ stock_panicked' = r.panicked
           ELSE /\ stock_profiles_out' = None
                /\ stock_fetched' = "none"
                /\ UNCHANGED <<stock_profile_map, stock_panicked>>
        /\ UNCHANGED <<stock_bars_map, stock_bar_sets_out,
                       beyondStVars>>

\* The combine_latest of symbol, time frame and date range hands a new
\* triple to to_stock_bar_sets from inside the main loop.
StockBarSetsSend ==
    \E stock_symbol \in StockSymbols, date_range \in DateRanges,
       retrieved \in FetchOutcomes, bars \in SUBSET Timestamps :
        /\ ~stock_panicked
        /\ LET r == ToStockBarSetsStep(stock_bars_map, stock_symbol, date_range,
                                       retrieved, bars)
           IN  /\ stock_bars_map' = r.map
               /\ stock_bar_sets_out' = r.out
               /\ stock_fetched' = r.fetched
               /\ stock_panicked' = r.panicked
        /\ UNCHANGED <<stock_symbol_buf, stock_profile_map, stock_profiles_out,
                       beyondStVars>>

(***************************************************************************)
(* The select menu widget on its own.                                      *)
(***************************************************************************)
\* The items passed to select(): those of the longest list and one more.
SelectableItems == {None} \cup {Some(TimeFrameNames[i]) : i \in 1..(MaxMenuItems + 1)}

\* The record of a call: its name, its argument, whether it returned Ok(_),
\* and what selected() returns after it.
MenuCalled(call, item, ok, st) ==
    [call |-> call, item |-> item, ok |-> ok, selected |-> Selected(st)]

\* A menu as built with the state st.
WidgetConstructed(st) ==
    /\ menu_state = st
    /\ menu_called = MenuCalled("new", None, TRUE, st)

\* select(item) followed by selected()
MenuSelect ==
    \E item \in SelectableItems :
        LET r == Select(menu_state, item)
        IN  /\ menu_state' = r.st
            /\ menu_called' = MenuCalled("select", item, r.ok, r.st)
            /\ UNCHANGED beyondWgVars

\* select_prev() followed by selected()
MenuSelectPrev ==
    /\ menu_state' = SelectPrev(menu_state)
    /\ menu_called' = MenuCalled("select_prev", None, TRUE, SelectPrev(menu_state))
    /\ UNCHANGED beyondWgVars

\* select_next() followed by selected()
MenuSelectNext ==
    /\ menu_state' = SelectNext(menu_state)
    /\ menu_called' = MenuCalled("select_next", None, TRUE, SelectNext(menu_state))
    /\ UNCHANGED beyondWgVars

(***************************************************************************)
(* The graph main builds: the routing, the stock symbol field, the         *)
(* arbitration fold with its queue, to_active_overlays, and the loop.      *)
(***************************************************************************)
\* Most input events sent by the loop of main.
MaxInputs == 6

\* InputEvent::Tick
TickEvent == [type |-> "Tick", code |-> "", ch |-> "", x |-> 0, y |-> 0]

\* The input events the loop is explored with: a tick, the hotkeys of the
\* field and of a menu, 'q', keys of the field, and clicks on the stock
\* symbol, inside the field, on the time frame box and on empty screen.
MainInputEvent ==
    {TickEvent, CharKey("s"), CharKey("q"), CharKey("t"), Key("Enter"), Key("Esc"),
     Click(1, 0), Click(0, 3), Click(9, 9), Click(0, 7)}

\* The draw of a tick: the field is drawn while its state is active; every
\* report goes to the routing and to the field.
MainFrameReports(text_field_state) ==
    FrameReports(IF text_field_state.active THEN {TextFieldSelfUiTarget} ELSE {},
                 NoMenuRows)

\* The arbitration fold on an event of the field, or nothing without one.
MainArbitration(map, changeset, emitted) ==
    IF emitted = None
    THEN [changeset |-> changeset, map |-> map, ran |-> FALSE]
    ELSE LET kind == IF emitted[1].ev.kind \in OverlayEventKind
                     THEN emitted[1].ev.kind
                     ELSE "Other"
             arb == ArbitrationStep(map, TextFieldSelfUiTarget, kind)
         IN  [changeset |-> arb.changeset, map |-> arb.map, ran |-> TRUE]

\* overlay_states.send(entry) for each drained entry, in order, while
\* drain(..) holds the queue: to_active_overlays and, for its own target,
\* the field observe it; an event of the field runs the arbitration fold,
\* whose subscriber takes the queue if the changeset is not empty.
MainSendOne(st, e, tick) ==
    LET acc == ActiveOverlayStep(st.acc_active_overlay, e.ui_target, e.overlay_state)
        emits == DistinctUntilChangedEmits(st.active_overlay_buf, acc)
        reaches == /\ e.ui_target = TextFieldSelfUiTarget
                   /\ DistinctUntilChangedEmits(st.tf_distinct_buf, e.overlay_state)
        \* the field's step and the fold's step, each taken once
        runs == {IF reaches
                 THEN TextFieldRun(st.tf_acc,
                                   CombineLatestOnB(st.tf_buf_a, e.overlay_state),
                                   st.tf_areas)
                 ELSE [acc |-> st.tf_acc, emitted |-> None]}
        steps == {[run |-> run,
                   arb |-> MainArbitration(st.map, st.changeset, run.emitted)] :
                      run \in runs}
    IN  CHOOSE sent \in
            {[st EXCEPT
                !.map = step.arb.map,
                !.changeset = step.arb.changeset,
                !.acc_active_overlay = acc,
                !.active_overlay_buf = IF emits THEN Some(acc) ELSE @,
                !.rt_active_overlay = IF emits THEN Some(acc) ELSE @,
                !.active_overlays_sent = IF emits THEN Append(@, acc) ELSE @,
                !.overlay_states_sent =
                    Append(@, [ui_target |-> e.ui_target,
                               overlay_state |-> e.overlay_state,
                               computed_at |-> e.computed_at, sent_at |-> tick]),
                !.tf_distinct_buf = IF reaches THEN Some(e.overlay_state) ELSE @,
                !.tf_buf_b = IF reaches THEN Some(e.overlay_state) ELSE @,
                !.tf_prev = IF reaches THEN st.tf_acc ELSE @,
                !.tf_acc = step.run.acc,
                !.tf_applied =
                    IF reaches /\ TextFieldApplies(st.tf_acc,
                                                   CombineLatestOnB(st.tf_buf_a,
                                                                    e.overlay_state),
                                                   st.tf_areas)
                    THEN IF @ = 0 THEN 1 ELSE 2
                    ELSE @,
                !.tf_emitted = step.run.emitted,
                !.panicked = step.arb.ran /\ DOMAIN step.arb.changeset # {}] :
             step \in steps} : TRUE

\* The for loop over the drained entries; a panic ends it.
RECURSIVE MainSendEach(_, _, _, _)
MainSendEach(st, entries, i, tick) ==
    IF i > Len(entries) \/ st.panicked
    THEN st
    ELSE MainSendEach(MainSendOne(st, entries[i], tick), entries, i + 1, tick)

\* The state MainSendEach works on, taken from the given values.
MainSendState(map, changeset, acc, buf, rt_active, distinct_buf, buf_a, buf_b, areas,
              field_acc, field_prev, applied) ==
    [map |-> map, changeset |-> changeset,
     acc_active_overlay |-> acc, active_overlay_buf |-> buf,
     rt_active_overlay |-> rt_active,
     active_overlays_sent |-> <<>>, overlay_states_sent |-> <<>>,
     tf_distinct_buf |-> distinct_buf, tf_buf_a |-> buf_a, tf_buf_b |-> buf_b,
     tf_areas |-> areas, tf_acc |-> field_acc, tf_prev |-> field_prev,
     tf_applied |-> applied, tf_emitted |-> None, panicked |-> FALSE]

\* The state when the loop is entered: the graph is built, the first tick
\* was sent and drew a frame, None was sent on active_overlays and the
\* initial overlay states were fed.
MainInit ==
    LET init == TextFieldState(FALSE, <<>>, 0)
        field == [text_field_state |-> init, saved_text_field_state |-> init,
                  overlay_state |-> OverlayStateDefault]
        reports == MainFrameReports(init)
        rt_fed == FeedAreaReports(<<>>, None, SelectSeq(reports, RoutingAreaReportPasses),
                                  RoutingAreaBufferCount)
        tf_fed == FeedAreaReports(<<>>, None, SelectSeq(reports, TextFieldAreaReportPasses),
                                  TextFieldAreaBufferCount)
        fed == MainSendEach(
                   MainSendState(EmptyMap, EmptyMap, None, None, Some(None), None, None,
                                 None, tf_fed.latest, field, field, 0),
                   [i \in 1..Len(InitialOverlayStates) |->
                       [ui_target |-> InitialOverlayStates[i].ui_target,
                        overlay_state |-> InitialOverlayStates[i].overlay_state,
                        computed_at |-> 0]],
                   1, 0)
    IN  /\ acc_overlay_state_map = fed.map
        /\ overlay_state_changeset = fed.changeset
        /\ overlay_state_queue = <<>>
        /\ acc_active_overlay = fed.acc_active_overlay
        /\ active_overlay_buf = fed.active_overlay_buf
        /\ pc = "flush"
        /\ iteration = 1
        /\ overlay_states_sent = <<>>
        /\ active_overlays_sent = <<>>
        /\ panicked = fed.panicked
        /\ tf_buf_a = None
        /\ tf_buf_b = fed.tf_buf_b
        /\ tf_distinct_buf = fed.tf_distinct_buf
        /\ tf_area_buf = tf_fed.buf
        /\ tf_areas = tf_fed.latest
        /\ tf_acc = fed.tf_acc
        /\ tf_emitted = None
        /\ tf_prev = fed.tf_acc
        /\ tf_trigger = "none"
        /\ tf_applied = 0
        /\ rt_area_buf = rt_fed.buf
        /\ rt_batch = SelectSeq(reports, RoutingAreaReportPasses)
        /\ rt_areas = rt_fed.latest
        /\ rt_active_overlay = fed.rt_active_overlay
        /\ rt_key_grouped_map = {}
        /\ rt_routed = None
        /\ rt_hit = None
        /\ rt_out = <<>>
        /\ rt_trigger = "none"
        /\ should_quit = FALSE

\* Start of a loop iteration: the queue is drained and every entry is sent
\* on overlay_states.
MainFlush ==
    /\ pc = "flush"
    /\ ~panicked
    /\ ~should_quit
    /\ LET st == MainSendEach(
                     MainSendState(acc_overlay_state_map, overlay_state_changeset,
                                   acc_active_overlay, active_overlay_buf,
                                   rt_active_overlay, tf_distinct_buf, tf_buf_a,
                                   tf_buf_b, tf_areas, tf_acc, tf_prev, tf_applied),
                     SubSeq(overlay_state_queue, 1,
                            Len(overlay_state_queue)
                              - Len(DrainedQueue(overlay_state_queue))),
                     1, iteration)
       IN  /\ acc_overlay_state_map' = st.map
           /\ overlay_state_changeset' = st.changeset
           /\ acc_active_overlay' = st.acc_active_overlay
           /\ active_overlay_buf' = st.active_overlay_buf
           /\ active_overlays_sent' = st.active_overlays_sent
           /\ overlay_states_sent' = st.overlay_states_sent
           /\ panicked' = st.panicked
           /\ rt_active_overlay' = st.rt_active_overlay
           /\ tf_distinct_buf' = st.tf_distinct_buf
           /\ tf_buf_b' = st.tf_buf_b
           /\ tf_acc' = st.tf_acc
           /\ tf_prev' = st.tf_prev
           /\ tf_applied' = st.tf_applied
           /\ tf_emitted' = st.tf_emitted
    /\ overlay_state_queue' = DrainedQueue(overlay_state_queue)
    /\ pc' = "input"
    /\ tf_trigger' = "overlay"
    /\ rt_routed' = None
    /\ rt_hit' = None
    /\ rt_out' = <<>>
    /\ rt_trigger' = "active_overlay"
    /\ UNCHANGED <<iteration, tf_buf_a, tf_area_buf, tf_areas, rt_area_buf, rt_batch,
                   rt_areas, rt_key_grouped_map, should_quit, beyondMainVars>>

\* input_events.send(Tick): the frame is drawn and reports its areas.
MainTick ==
    /\ pc = "input"
    /\ ~panicked
    /\ iteration <= MaxInputs
    /\ LET reports == MainFrameReports(tf_acc.text_field_state)
           rt_reports == SelectSeq(reports, RoutingAreaReportPasses)
           rt_fed == FeedAreaReports(rt_area_buf, rt_areas, rt_reports,
                                     RoutingAreaBufferCount)
           tf_fed == FeedAreaReports(tf_area_buf, tf_areas,
                                     SelectSeq(reports, TextFieldAreaReportPasses),
                                     TextFieldAreaBufferCount)
       IN  /\ rt_area_buf' = rt_fed.buf
           /\ rt_areas' = rt_fed.latest
           /\ rt_batch' = LatestBatch(rt_batch, rt_area_buf, rt_reports,
                                      RoutingAreaBufferCount)
           /\ tf_area_buf' = tf_fed.buf
           /\ tf_areas' = tf_fed.latest
    /\ rt_routed' = None
    /\ rt_hit' = None
    /\ rt_out' = <<>>
    /\ rt_trigger' = "frame"
    /\ tf_emitted' = None
    /\ tf_prev' = tf_acc
    /\ tf_trigger' = "frame"
    /\ pc' = "flush"
    /\ iteration' = iteration + 1
    /\ UNCHANGED <<acc_overlay_state_map, overlay_state_changeset, overlay_state_queue,
                   acc_active_overlay, active_overlay_buf, overlay_states_sent,
                   active_overlays_sent, panicked, tf_buf_a, tf_buf_b, tf_distinct_buf,
                   tf_acc, tf_applied, rt_active_overlay, rt_key_grouped_map, should_quit,
                   beyondMainVars>>

\* input_events.send(ev) for a key or mouse event: it is routed; under the
\* field's key it reaches the field, whose event runs the arbitration fold
\* and is queued; under None it reaches the subscriber that sets the quit
\* flag on 'q'.
MainInput ==
    \E ev \in MainInputEvent \ {TickEvent} :
        /\ pc = "input"
        /\ ~panicked
        /\ iteration <= MaxInputs
        /\ LET with_areas == WithLatestFromOnA(rt_areas, ev)
               with_active == WithLatestFromOnA(rt_active_overlay, with_areas[1])
               ui_target_areas == with_active[1][1][2]
               active_overlay == with_active[1][2]
               routed == with_areas # None /\ with_active # None
               key == GroupKey(ev, ui_target_areas, active_overlay)
               sent == GroupByOnItem(rt_key_grouped_map, key, ev)
               to_field == routed /\ key = Some(TextFieldSelfUiTarget)
           IN  /\ rt_routed' = IF routed
                               THEN Some([ev |-> ev, ui_target_areas |-> ui_target_areas,
                                          active_overlay |-> active_overlay, key |-> key])
                               ELSE None
               /\ rt_hit' = IF routed /\ ev.type = "MouseUpLeft"
                            THEN HitTarget(FindHit(ui_target_areas, ev.x, ev.y))
                            ELSE None
               /\ rt_out' = IF routed THEN sent.out ELSE <<>>
               /\ rt_key_grouped_map' = IF routed THEN sent.key_grouped_map
                                        ELSE rt_key_grouped_map
               /\ tf_buf_a' = IF to_field THEN Some(ev) ELSE tf_buf_a
               /\ tf_applied' =
                      IF ~to_field
                      THEN tf_applied
                      ELSE IF TextFieldApplies(tf_acc, CombineLatestOnA(tf_buf_b, ev),
                                               tf_areas)
                           THEN 1
                           ELSE 0
               /\ \E run \in {IF to_field
                              THEN TextFieldRun(tf_acc, CombineLatestOnA(tf_buf_b, ev),
                                                tf_areas)
                              ELSE [acc |-> tf_acc, emitted |-> None]} :
                  \E arb \in {MainArbitration(acc_overlay_state_map,
                                              overlay_state_changeset, run.emitted)} :
                      /\ tf_acc' = run.acc
                      /\ tf_emitted' = run.emitted
                      /\ acc_overlay_state_map' = arb.map
                      /\ overlay_state_changeset' = arb.changeset
                      /\ IF arb.ran
                         THEN \E order \in ChangesetIterationOrders(arb.changeset) :
                                 overlay_state_queue' =
                                     PushChangeset(overlay_state_queue, arb.changeset,
                                                   order, iteration)
                         ELSE UNCHANGED overlay_state_queue
               /\ should_quit' = (should_quit
                                  \/ (routed /\ key = None /\ ev = CharKey("q")))
        /\ rt_trigger' = "input"
        /\ tf_prev' = tf_acc
        /\ tf_trigger' = "input"
        /\ pc' = "flush"
        /\ iteration' = iteration + 1
        /\ UNCHANGED <<acc_active_overlay, active_overlay_buf, overlay_states_sent,
                       active_overlays_sent, panicked, tf_buf_b, tf_distinct_buf,
                       tf_area_buf, tf_areas, rt_area_buf, rt_batch, rt_areas,
                       rt_active_overlay, beyondMainVars>>

(***************************************************************************)
(* Date ranges (app.rs): TimeFrame and to_date_ranges.                     *)
(***************************************************************************)
\* The number of items sent on the inputs of to_date_ranges.
MaxDateRangeSteps == 5

\* The time frames and input events the date ranges are explored with.
DateRangeTimeFrames == {"FiveDays", "OneMonth", "Max"}
DateRangeInputEvent == {Key("Left"), Key("Right"), Key("Up"), Click(9, 9)}

\* TimeFrame::duration, in days.
TimeFrameDuration(time_frame) ==
    CASE time_frame = "FiveDays" -> Some(5)
      [] time_frame = "OneMonth" -> Some(30)
      [] time_frame = "ThreeMonths" -> Some(30 * 3)
      [] time_frame = "SixMonths" -> Some(30 * 6)
      [] time_frame = "OneYear" -> Some(30 * 12)
      [] time_frame = "TwoYears" -> Some(30 * 12 * 2)
      [] time_frame = "FiveYears" -> Some(30 * 12 * 5)
      [] time_frame = "TenYears" -> Some(30 * 12 * 10)
      [] OTHER -> None

\* Utc::now().date() as a day number; the current time is held fixed.
UtcToday == 0

\* TimeFrame::now_date_range: Some(<<start, end>>) in days, end excluded.
NowDateRange(time_frame) ==
    LET duration == TimeFrameDuration(time_frame)
        end_date == UtcToday + 1
    IN  IF duration = None
        THEN None
        ELSE Some(<<end_date - duration[1], end_date>>)

\* One step of the fold of to_date_ranges; the unwrap of a missing
\* accumulated range panics.
DateRangeStep(acc, ev, stock_symbol, time_frame, active_overlay_ui_target) ==
    LET stock_symbol_changed ==
            acc.stock_symbol # None /\ acc.stock_symbol # Some(stock_symbol)
        time_frame_changed ==
            acc.time_frame # None /\ acc.time_frame # Some(time_frame)
        acc_date_range ==
            IF acc.time_frame # None /\ ~stock_symbol_changed /\ ~time_frame_changed
            THEN acc.date_range
            ELSE NowDateRange(time_frame)
        duration == TimeFrameDuration(time_frame)
        Result(s, f, r) ==
            [panicked |-> FALSE,
             acc |-> [stock_symbol |-> s, time_frame |-> f, date_range |-> r]]
        Moved(r) == Result(Some(stock_symbol), Some(time_frame), r)
        panic == [panicked |-> TRUE, acc |-> acc]
    IN  IF stock_symbol_changed \/ time_frame_changed
        THEN Moved(acc_date_range)
        ELSE IF ev.type = "Key" /\ ev.code = "Left" /\ active_overlay_ui_target = None
        THEN IF duration = None
             THEN Moved(None)
             ELSE IF acc_date_range = None
             THEN panic
             ELSE LET end_date == acc_date_range[1][1]
                  IN  Moved(Some(<<end_date - duration[1], end_date>>))
        ELSE IF ev.type = "Key" /\ ev.code = "Right" /\ active_overlay_ui_target = None
        THEN IF duration = None
             THEN Moved(None)
             ELSE IF acc_date_range = None
             THEN panic
             ELSE LET start_date == acc_date_range[1][2]
                      date_range == <<start_date, start_date + duration[1]>>
                      max_date_range == NowDateRange(time_frame)[1]
                  IN  Moved(Some(IF date_range[2] > max_date_range[2]
                                 THEN max_date_range
                                 ELSE date_range))
        ELSE Result(acc.stock_symbol, acc.time_frame, acc_date_range)

\* What the two combine_latest hold together: the latest input event,
\* symbol and time frame, once there is one of each.
DateRangeCombined(buf_ev, buf_symbol, buf_time_frame) ==
    IF buf_ev = None \/ buf_symbol = None \/ buf_time_frame = None
    THEN None
    ELSE Some(<<buf_ev[1], buf_symbol[1], buf_time_frame[1]>>)

\* with_latest_from(active_overlay_ui_targets), the fold, the map and the
\* closing distinct_until_changed, on what the combine_latest pair emitted.
DateRangeRun(acc, distinct_buf, latest, combined, active_overlay) ==
    IF combined = None \/ active_overlay = None
    THEN [acc |-> acc, distinct_buf |-> distinct_buf, latest |-> latest,
          panicked |-> FALSE]
    ELSE LET step == DateRangeStep(acc, combined[1][1], combined[1][2], combined[1][3],
                                   active_overlay[1])
             emits == /\ ~step.panicked
                      /\ DistinctUntilChangedEmits(distinct_buf, step.acc.date_range)
         IN  [acc |-> step.acc,
              distinct_buf |-> IF emits THEN Some(step.acc.date_range) ELSE distinct_buf,
              latest |-> IF emits THEN step.acc.date_range ELSE latest,
              panicked |-> step.panicked]

\* The streams as main leaves them before its loop: no input event yet, the
\* initial date range, time frame and symbol sent, no overlay active.
DateRangesConstructed(symbol, time_frame) ==
    /\ dr_buf_ev = None
    /\ dr_buf_symbol = Some(symbol)
    /\ dr_buf_time_frame = Some(time_frame)
    /\ dr_active_overlay = Some(None)
    /\ dr_acc = [stock_symbol |-> None, time_frame |-> None, date_range |-> None]
    /\ dr_distinct_buf = None
    /\ dr_latest = NowDateRange(time_frame)
    /\ dr_panicked = FALSE
    /\ dr_prev = dr_latest
    /\ dr_trigger = "none"
    /\ dr_steps = 0

\* The part every step of to_date_ranges shares: the run on what the
\* buffers hold after the item.
DateRangeOnItem(trigger, buf_ev, buf_symbol, buf_time_frame) ==
    /\ \E run \in {DateRangeRun(dr_acc, dr_distinct_buf, dr_latest,
                                 DateRangeCombined(buf_ev, buf_symbol, buf_time_frame),
                                 dr_active_overlay)} :
          /\ dr_acc' = run.acc
          /\ dr_distinct_buf' = run.distinct_buf
          /\ dr_latest' = run.latest
          /\ dr_panicked' = run.panicked
    /\ dr_buf_ev' = buf_ev
    /\ dr_buf_symbol' = buf_symbol
    /\ dr_buf_time_frame' = buf_time_frame
    /\ dr_prev' = dr_latest
    /\ dr_trigger' = trigger
    /\ dr_steps' = dr_steps + 1
    /\ UNCHANGED <<dr_active_overlay, beyondDrVars>>

\* A user input event grouped under None arrives: the routing sends such
\* an event only while no overlay is active.
DateRangeInput ==
    \E ev \in DateRangeInputEvent :
        /\ ~dr_panicked
        /\ dr_steps < MaxDateRangeSteps
        /\ dr_active_overlay = Some(None)
        /\ DateRangeOnItem("input", Some(ev), dr_buf_symbol, dr_buf_time_frame)

\* A stock symbol is sent; a repeated one stops at distinct_until_changed.
DateRangeStockSymbol ==
    \E stock_symbol \in StockSymbols :
        /\ ~dr_panicked
        /\ dr_steps < MaxDateRangeSteps
        /\ DistinctUntilChangedEmits(dr_buf_symbol, stock_symbol)
        /\ DateRangeOnItem("stock_symbol", dr_buf_ev, Some(stock_symbol),
                           dr_buf_time_frame)

\* A time frame is sent; a repeated one stops at distinct_until_changed.
DateRangeTimeFrame ==
    \E time_frame \in DateRangeTimeFrames :
        /\ ~dr_panicked
        /\ dr_steps < MaxDateRangeSteps
        /\ DistinctUntilChangedEmits(dr_buf_time_frame, time_frame)
        /\ DateRangeOnItem("time_frame", dr_buf_ev, dr_buf_symbol, Some(time_frame))

\* The active overlay changes: with_latest_from stores it.
DateRangeActiveOverlay ==
    \E active_overlay \in {None} \cup {Some(t) : t \in OverlayUiTarget} :
        /\ ~dr_panicked
        /\ dr_steps < MaxDateRangeSteps
        /\ dr_active_overlay # Some(active_overlay)
        /\ dr_active_overlay' = Some(active_overlay)
        /\ dr_prev' = dr_latest
        /\ dr_trigger' = "active_overlay"
        /\ dr_steps' = dr_steps + 1
        /\ UNCHANGED <<dr_buf_ev, dr_buf_symbol, dr_buf_time_frame, dr_acc,
                       dr_distinct_buf, dr_latest, dr_panicked, beyondDrVars>>

(***************************************************************************)
(* Specifications.                                                         *)
(***************************************************************************)
\* The components added after the reducers, as built.
MoreConstructed ==
    /\ CombinatorsConstructed
    /\ RoutingConstructed
    /\ StockConstructed
    /\ WidgetConstructed(SelectMenuState(FALSE, FALSE, SubSeq(TimeFrameNames, 1, 1), None))
    /\ should_quit = FALSE
    /\ DateRangesConstructed("A", "OneMonth")

\* The arbitration fold, its queue and the main loop, for any overlay events.
Init ==
    /\ ArbInit
    /\ TextFieldConstructed(TextFieldState(FALSE, <<>>, 0))
    /\ SelectMenuConstructed(SelectMenuState(FALSE, FALSE, SubSeq(TimeFrameNames, 1, 1), None))
    /\ MoreConstructed

Next ==
    \/ FlushOverlayStates
    \/ SendInputEventQuiet
    \/ SendInputEvent

Spec == Init /\ [][Next]_vars

\* The text-field reducer, for any input events, overlay states and frames.
InitTextField ==
    /\ ArbInit
    /\ TextFieldInit
    /\ SelectMenuConstructed(SelectMenuState(FALSE, FALSE, SubSeq(TimeFrameNames, 1, 1), None))
    /\ MoreConstructed

NextTextField ==
    \/ TextFieldInput
    \/ TextFieldOverlayState
    \/ TextFieldFrame

SpecTextField == InitTextField /\ [][NextTextField]_vars

\* The overlay-states broadcast with to_active_overlays and the text-field
\* reducer on it, for any pairs sent, input events and frames.
InitOverlayStates ==
    /\ ArbInit
    /\ TextFieldConstructed(TextFieldState(FALSE, <<>>, 0))
    /\ SelectMenuConstructed(SelectMenuState(FALSE, FALSE, SubSeq(TimeFrameNames, 1, 1), None))
    /\ MoreConstructed

NextOverlayStates ==
    \/ OverlayStatesSend
    \/ TextFieldInput
    \/ TextFieldFrame

SpecOverlayStates == InitOverlayStates /\ [][NextOverlayStates]_vars

\* The select-menu reducer, for any input events, overlay states and frames.
InitSelectMenu ==
    /\ ArbInit
    /\ TextFieldConstructed(TextFieldState(FALSE, <<>>, 0))
    /\ SelectMenuInit
    /\ MoreConstructed

NextSelectMenu ==
    \/ SelectMenuInput
    \/ SelectMenuOverlayState
    \/ SelectMenuFrame

SpecSelectMenu == InitSelectMenu /\ [][NextSelectMenu]_vars

\* The combinators on their own, for any items of the two sources.
InitCombinators ==
    /\ ArbInit
    /\ TextFieldConstructed(TextFieldState(FALSE, <<>>, 0))
    /\ SelectMenuConstructed(SelectMenuState(FALSE, FALSE, SubSeq(TimeFrameNames, 1, 1), None))
    /\ MoreConstructed

NextCombinators ==
    \/ SendA
    \/ SendB

SpecCombinators == InitCombinators /\ [][NextCombinators]_vars

\* The combinators fed by source A alone, for any keyed items.
NextKeyed == SendKeyed

SpecKeyed == InitCombinators /\ [][NextKeyed]_vars

\* The routing, for any input events, active overlays and frames.
InitRouting ==
    /\ ArbInit
    /\ TextFieldConstructed(TextFieldState(FALSE, <<>>, 0))
    /\ SelectMenuConstructed(SelectMenuState(FALSE, FALSE, SubSeq(TimeFrameNames, 1, 1), None))
    /\ MoreConstructed

NextRouting ==
    \/ RoutingInput
    \/ RoutingActiveOverlay
    \/ RoutingFrame

SpecRouting == InitRouting /\ [][NextRouting]_vars

\* The stock streams, for any symbols, date ranges and fetch outcomes.
InitStock ==
    /\ ArbInit
    /\ TextFieldConstructed(TextFieldState(FALSE, <<>>, 0))
    /\ SelectMenuConstructed(SelectMenuState(FALSE, FALSE, SubSeq(TimeFrameNames, 1, 1), None))
    /\ MoreConstructed

NextStock ==
    \/ StockSymbolSend
    \/ StockBarSetsSend

SpecStock == InitStock /\ [][NextStock]_vars

\* The select menu widget, for any menu and any calls.
InitWidget ==
    /\ ArbInit
    /\ TextFieldConstructed(TextFieldState(FALSE, <<>>, 0))
    /\ SelectMenuConstructed(SelectMenuState(FALSE, FALSE, SubSeq(TimeFrameNames, 1, 1), None))
    /\ CombinatorsConstructed
    /\ RoutingConstructed
    /\ StockConstructed
    /\ should_quit = FALSE
    /\ DateRangesConstructed("A", "OneMonth")
    /\ \E st \in InitSelectMenuState : WidgetConstructed(st)

NextWidget ==
    \/ MenuSelect
    \/ MenuSelectPrev
    \/ MenuSelectNext

SpecWidget == InitWidget /\ [][NextWidget]_vars

\* The loop of main with the graph it builds, for any input events.
InitMain ==
    /\ MainInit
    /\ SelectMenuConstructed(SelectMenuState(FALSE, FALSE, SubSeq(TimeFrameNames, 1, 1), None))
    /\ CombinatorsConstructed
    /\ StockConstructed
    /\ WidgetConstructed(SelectMenuState(FALSE, FALSE, SubSeq(TimeFrameNames, 1, 1), None))
    /\ DateRangesConstructed("A", "OneMonth")

NextMain ==
    \/ MainFlush
    \/ MainTick
    \/ MainInput

SpecMain == InitMain /\ [][NextMain]_vars

\* The date ranges, for any input events, symbols, time frames and active
\* overlays, from any initial symbol and time frame.
InitDateRanges ==
    /\ ArbInit
    /\ TextFieldConstructed(TextFieldState(FALSE, <<>>, 0))
    /\ SelectMenuConstructed(SelectMenuState(FALSE, FALSE, SubSeq(TimeFrameNames, 1, 1), None))
    /\ CombinatorsConstructed
    /\ RoutingConstructed
    /\ StockConstructed
    /\ WidgetConstructed(SelectMenuState(FALSE, FALSE, SubSeq(TimeFrameNames, 1, 1), None))
    /\ should_quit = FALSE
    /\ \E symbol \in StockSymbols, time_frame \in DateRangeTimeFrames :
          DateRangesConstructed(symbol, time_frame)

NextDateRanges ==
    \/ DateRangeInput
    \/ DateRangeStockSymbol
    \/ DateRangeTimeFrame
    \/ DateRangeActiveOverlay

SpecDateRanges == InitDateRanges /\ [][NextDateRanges]_vars

(***************************************************************************)
(* Claims about overlay arbitration and the next-tick queue.               *)
(***************************************************************************)
ActiveTargets(map) == {t \in DOMAIN map : map[t] = "Active"}

QueuedPairs(queue) ==
    {<<queue[i].ui_target, queue[i].overlay_state>> : i \in 1..Len(queue)}

\* C1: after every processed overlay event the accumulated overlay-state
\* map of the arbitration fold marks at most one UiTarget as Active.
C1_AtMostOneActive ==
    Cardinality(ActiveTargets(acc_overlay_state_map)) <= 1

\* C1 witness: the map holds one Active target beside an Inactive one, and
\* the last fold step changed something.
C1_Witness ==
    /\ \E a, b \in DOMAIN acc_overlay_state_map :
        /\ acc_overlay_state_map[a] = "Active"
        /\ acc_overlay_state_map[b] = "Inactive"
    /\ DOMAIN overlay_state_changeset # {}
    /\ pc = "flush"

\* C2: when a fold step makes target b Active while the accumulated map
\* holds another target a as Active, the changeset of that step, and the
\* entries queued by it, contain both (a, Inactive) and (b, Active).
C2_ActivationDeactivatesInSameBatch ==
    [][\A a, b \in OverlayUiTarget :
        ( /\ a # b
          /\ a \in ActiveTargets(acc_overlay_state_map)
          /\ b \in ActiveTargets(acc_overlay_state_map') )
        => /\ a \in DOMAIN overlay_state_changeset'
           /\ overlay_state_changeset'[a] = "Inactive"
           /\ b \in DOMAIN overlay_state_changeset'
           /\ overlay_state_changeset'[b] = "Active"
           /\ {<<a, "Inactive">>, <<b, "Active">>}
                \subseteq QueuedPairs(overlay_state_queue')]_vars

\* C2 witness: a changeset holding a deactivation and an activation has
\* been queued as one batch.
C2_Witness ==
    \E a, b \in OverlayUiTarget :
        /\ a # b
        /\ a \in DOMAIN overlay_state_changeset
        /\ b \in DOMAIN overlay_state_changeset
        /\ overlay_state_changeset[a] = "Inactive"
        /\ overlay_state_changeset[b] = "Active"
        /\ QueuedPairs(overlay_state_queue) = {<<a, "Inactive">>, <<b, "Active">>}

\* C3: an overlay-state change computed while input event k is processed is
\* sent on the overlay-state broadcast in the flush at the start of
\* iteration k + 1 and at no other time; what waits on the queue was
\* computed by the previous input event, and the queue is empty once the
\* flush is done.
C3_QueuedUntilNextTick ==
    /\ \A i \in 1..Len(overlay_states_sent) :
        overlay_states_sent[i].sent_at = overlay_states_sent[i].computed_at + 1
    /\ \A i \in 1..Len(overlay_state_queue) :
        /\ pc = "flush"
        /\ overlay_state_queue[i].computed_at = iteration - 1
    /\ pc = "input" => overlay_state_queue = <<>>

\* C3 witness: a flush has just sent a batch of two queued changes.
C3_Witness ==
    /\ pc = "input"
    /\ Len(overlay_states_sent) = 2
    /\ overlay_state_queue = <<>>

\* C4: the observable outputs do not depend on the order in which the
\* entries of one overlay changeset are iterated and queued: whichever
\* order another run takes, the flush emits the same sequence of
\* active-overlay values.
C4_OutputsIndependentOfOrder ==
    pc = "flush" =>
        \A o \in Orderings(Range(overlay_state_queue)) :
            ActiveOverlaysEmitted(acc_active_overlay, active_overlay_buf, o)
            = ActiveOverlaysEmitted(acc_active_overlay, active_overlay_buf,
                                    overlay_state_queue)

(***************************************************************************)
(* Text-field claims.  tf_prev is the accumulator the latest step started  *)
(* from, tf_acc the one it produced, tf_emitted what it sent downstream.   *)
(***************************************************************************)
\* The latest step was the key press code on the input stream.
KeyPressed(code) == tf_trigger = "input" /\ tf_buf_a = Some(Key(code))

\* The latest step emitted the event e together with the state it produced.
Emitted(e) == tf_emitted = Some([ev |-> e, state |-> tf_acc.text_field_state])

CursorInRange(st) == 0 <= st.cursor_offset /\ st.cursor_offset <= Len(st.value)

\* The event the click routing table gives for a click at (x, y), if any.
ClickRoutedTo(x, y) ==
    LET target == HitTarget(FindHit(tf_areas[1], x, y))
    IN  IF target \in DOMAIN TextFieldEventMap
        THEN Some(TextFieldEventMap[target])
        ELSE None

\* C5: Enter pressed while the field is active with a non-empty value emits
\* Accept(trim(value)), leaves the field inactive, and makes the trimmed
\* value the saved value.
C5_EnterCommitsTrimmedValue ==
    (KeyPressed("Enter") /\ tf_prev.text_field_state.active
                         /\ tf_prev.text_field_state.value # <<>>)
    => /\ Emitted(TfAccept(Trim(tf_prev.text_field_state.value)))
       /\ ~tf_acc.text_field_state.active
       /\ tf_acc.saved_text_field_state.value = Trim(tf_prev.text_field_state.value)

\* C6: every state the reducer produces has 0 <= cursor_offset <= the number
\* of characters of value.
C6_CursorWithinValue ==
    /\ CursorInRange(tf_acc.text_field_state)
    /\ CursorInRange(tf_acc.saved_text_field_state)
    /\ tf_emitted # None => CursorInRange(tf_emitted[1].state)

\* A Backspace at the end of a value of two or more characters has just
\* removed a character and moved the cursor with it.
C6_Witness ==
    /\ KeyPressed("Backspace")
    /\ tf_prev.text_field_state.cursor_offset = Len(tf_prev.text_field_state.value)
    /\ Len(tf_prev.text_field_state.value) >= 2
    /\ Emitted(TfInput(tf_acc.text_field_state.value))
    /\ tf_acc.text_field_state.cursor_offset = Len(tf_acc.text_field_state.value)

\* C7: Backspace while active at cursor 0 emits BackspacePastStart, Delete
\* while active at the end emits DeletePastEnd; value, cursor, active flag
\* and saved value are unchanged in both cases.
C7_EdgeEditsRejected ==
    /\ (KeyPressed("Backspace") /\ tf_prev.text_field_state.active
                                /\ tf_prev.text_field_state.cursor_offset = 0)
       => /\ Emitted(TfEvent("BackspacePastStart"))
          /\ tf_acc.text_field_state = tf_prev.text_field_state
          /\ tf_acc.saved_text_field_state = tf_prev.saved_text_field_state
    /\ (KeyPressed("Delete") /\ tf_prev.text_field_state.active
                             /\ tf_prev.text_field_state.cursor_offset
                                    = Len(tf_prev.text_field_state.value))
       => /\ Emitted(TfEvent("DeletePastEnd"))
          /\ tf_acc.text_field_state = tf_prev.text_field_state
          /\ tf_acc.saved_text_field_state = tf_prev.saved_text_field_state

\* Backspace was pressed with the cursor at the start of a non-empty value
\* and was rejected.
C7_Witness ==
    /\ KeyPressed("Backspace")
    /\ tf_prev.text_field_state.active
    /\ tf_prev.text_field_state.cursor_offset = 0
    /\ tf_prev.text_field_state.value # <<>>
    /\ tf_emitted # None
    /\ tf_emitted[1].ev.kind = "BackspacePastStart"

\* C8: Left at cursor 0 emits MoveCursorPastStart and Right at the end emits
\* MoveCursorPastEnd, state unchanged; in every other active state Left and
\* Right move the cursor by exactly one and emit MoveCursor(new offset).
C8_CursorMovesOrRejects ==
    LET before == tf_prev.text_field_state
        moved(by) == [before EXCEPT !.cursor_offset = before.cursor_offset + by]
    IN  /\ (KeyPressed("Left") /\ before.active)
           => IF before.cursor_offset = 0
              THEN /\ Emitted(TfEvent("MoveCursorPastStart"))
                   /\ tf_acc.text_field_state = before
              ELSE /\ Emitted(TfMoveCursor(before.cursor_offset - 1))
                   /\ tf_acc.text_field_state = moved(-1)
        /\ (KeyPressed("Right") /\ before.active)
           => IF before.cursor_offset = Len(before.value)
              THEN /\ Emitted(TfEvent("MoveCursorPastEnd"))
                   /\ tf_acc.text_field_state = before
              ELSE /\ Emitted(TfMoveCursor(before.cursor_offset + 1))
                   /\ tf_acc.text_field_state = moved(1)

\* Right was pressed with the cursor at the end of a non-empty value and was
\* rejected.
C8_Witness ==
    /\ KeyPressed("Right")
    /\ tf_prev.text_field_state.active
    /\ tf_prev.text_field_state.value # <<>>
    /\ tf_prev.text_field_state.cursor_offset = Len(tf_prev.text_field_state.value)
    /\ tf_emitted # None
    /\ tf_emitted[1].ev.kind = "MoveCursorPastEnd"

\* The latest step was a deactivating one: Escape, a click routed to
\* Deactivate or Toggle, or the overlay state going from Active to Inactive,
\* in each case while the field was active.
DeactivatingStep ==
    /\ tf_prev.text_field_state.active
    /\ \/ KeyPressed("Esc")
       \/ /\ tf_trigger = "input"
          /\ tf_buf_a[1].type = "MouseUpLeft"
          /\ ClickRoutedTo(tf_buf_a[1].x, tf_buf_a[1].y)
                 \in {Some("Deactivate"), Some("Toggle")}
       \/ /\ tf_trigger = "overlay"
          /\ tf_prev.overlay_state = "Active"
          /\ tf_buf_b = Some("Inactive")

\* C9: Escape, a click routed to Deactivate or Toggle, and an overlay-state
\* change Active to Inactive, each while active, emit Deactivate and produce
\* a state equal to the saved state (edits discarded, field inactive).
C9_DeactivationRevertsToSaved ==
    DeactivatingStep
    => /\ Emitted(TfEvent("Deactivate"))
       /\ tf_acc.text_field_state = tf_prev.saved_text_field_state
       /\ tf_acc.saved_text_field_state = tf_prev.saved_text_field_state
       /\ ~tf_acc.text_field_state.active

\* The overlay state went from Active to Inactive while the field was active
\* and held an edited value.
C9_Witness ==
    /\ tf_trigger = "overlay"
    /\ tf_prev.overlay_state = "Active"
    /\ tf_buf_b = Some("Inactive")
    /\ tf_prev.text_field_state.active
    /\ tf_prev.text_field_state.value # tf_prev.saved_text_field_state.value
    /\ tf_emitted # None
    /\ tf_emitted[1].ev.kind = "Deactivate"

(***************************************************************************)
(* Select-menu claims.  sm_prev is the accumulator the latest step started *)
(* from, sm_acc the one it produced, sm_emitted what it sent downstream.   *)
(***************************************************************************)
\* The largest index a menu state may select: len - 1, or len where the
\* empty selection is allowed.
LastIndex(st) == IF st.allow_empty_selection THEN Len(st.items) ELSE Len(st.items) - 1

SelectedIndexInRange(st) ==
    \/ st.selected_index = None
    \/ st.selected_index[1] \in 0..LastIndex(st)

\* C10: selected_index is None or an index in 0..=len-1 (0..=len with
\* allow_empty_selection) in every state the reducer produces, and
\* selected() never reads outside items.
C10_SelectedIndexInRange ==
    /\ SelectedIndexInRange(sm_acc.select_menu_state)
    /\ SelectedIndexInRange(sm_acc.saved_select_menu_state)
    /\ sm_emitted # None => SelectedIndexInRange(sm_emitted[1].state)
    /\ ~Selected(sm_acc.select_menu_state).panicked
    /\ ~sm_panicked

\* Down was pressed in an active menu of two or more items whose last row
\* was selected, and the selection stayed on the last row.
C10_Witness ==
    /\ sm_trigger = "input"
    /\ sm_buf_a = Some(Key("Down"))
    /\ sm_prev.select_menu_state.active
    /\ Len(sm_prev.select_menu_state.items) >= 2
    /\ sm_prev.select_menu_state.selected_index = Some(LastIndex(sm_prev.select_menu_state))
    /\ sm_acc.select_menu_state.selected_index = Some(LastIndex(sm_prev.select_menu_state))
    /\ sm_emitted # None
    /\ sm_emitted[1].ev = SmSelectIndex(LastIndex(sm_prev.select_menu_state))

\* The latest step was the key press code on the menu's input stream.
MenuKeyPressed(code) == sm_trigger = "input" /\ sm_buf_a = Some(Key(code))

\* The latest step emitted the event e together with the state it produced.
MenuEmitted(e) == sm_emitted = Some([ev |-> e, state |-> sm_acc.select_menu_state])

\* The item a menu state shows as selected.
SelectedItem(st) == Selected(st).item

\* C11: Enter while active emits Accept with the selected item, stores the
\* current selection as the saved selection and makes the menu inactive;
\* the saved selection changes in no step that does not accept, and every
\* activation (hotkey, click or overlay state) starts from it.
C11_EnterCommitsSelection ==
    LET before == sm_prev.select_menu_state
        after == sm_acc.select_menu_state
        accepted == sm_emitted # None /\ sm_emitted[1].ev.kind = "Accept"
    IN  /\ (MenuKeyPressed("Enter") /\ before.active)
           => /\ MenuEmitted(SmAccept(SelectedItem(before)))
              /\ after = [before EXCEPT !.active = FALSE]
              /\ sm_acc.saved_select_menu_state = after
        /\ ~accepted => sm_acc.saved_select_menu_state = sm_prev.saved_select_menu_state
        /\ (~before.active /\ after.active)
           => /\ MenuEmitted(SmEvent("Activate"))
              /\ after = [sm_prev.saved_select_menu_state EXCEPT !.active = TRUE]

\* Enter was pressed in an active menu whose selection had been moved away
\* from the saved one, and the moved selection is now the saved one.
C11_Witness ==
    /\ MenuKeyPressed("Enter")
    /\ sm_prev.select_menu_state.active
    /\ sm_prev.select_menu_state.selected_index
           # sm_prev.saved_select_menu_state.selected_index
    /\ sm_acc.saved_select_menu_state.selected_index
           = sm_prev.select_menu_state.selected_index
    /\ sm_emitted # None
    /\ sm_emitted[1].ev.kind = "Accept"
    /\ sm_emitted[1].ev.item # None

\* The event the menu's click routing table gives for a click at (x, y).
MenuClickRoutedTo(x, y) ==
    LET target == HitTarget(FindHit(sm_areas[1], x, y))
    IN  IF target \in DOMAIN SelectMenuEventMap
        THEN Some(SelectMenuEventMap[target])
        ELSE None

\* The latest step was a deactivating one: Escape, a click routed to
\* Deactivate or Toggle, or the overlay state going from Active to Inactive,
\* in each case while the menu was active.
MenuDeactivatingStep ==
    /\ sm_prev.select_menu_state.active
    /\ \/ MenuKeyPressed("Esc")
       \/ /\ sm_trigger = "input"
          /\ sm_buf_a[1].type = "MouseUpLeft"
          /\ MenuClickRoutedTo(sm_buf_a[1].x, sm_buf_a[1].y)
                 \in {Some("Deactivate"), Some("Toggle")}
       \/ /\ sm_trigger = "overlay"
          /\ sm_prev.overlay_state = "Active"
          /\ sm_buf_b = Some("Inactive")

\* C12: Escape, a click routed to Deactivate or Toggle, and an overlay-state
\* change Active to Inactive, each while active, emit Deactivate and produce
\* a state equal to the saved state (moved selection discarded, inactive).
C12_MenuDeactivationRevertsToSaved ==
    MenuDeactivatingStep
    => /\ MenuEmitted(SmEvent("Deactivate"))
       /\ sm_acc.select_menu_state = sm_prev.saved_select_menu_state
       /\ sm_acc.saved_select_menu_state = sm_prev.saved_select_menu_state
       /\ ~sm_acc.select_menu_state.active

\* A click on the activator deactivated an active menu whose selection had
\* been moved away from the saved one.
C12_Witness ==
    /\ sm_trigger = "input"
    /\ sm_buf_a = Some(Click(8, 8))
    /\ sm_prev.select_menu_state.active
    /\ sm_prev.select_menu_state.selected_index
           # sm_prev.saved_select_menu_state.selected_index
    /\ sm_emitted # None
    /\ sm_emitted[1].ev.kind = "Deactivate"

\* The latest step was a left-click release at (x, y) that hit the menu's
\* own rendered area, strictly inside its one-cell border, while the menu
\* was active.
ClickedInsideList(x, y) ==
    /\ sm_trigger = "input"
    /\ sm_buf_a = Some(Click(x, y))
    /\ sm_prev.select_menu_state.active
    /\ LET hit == FindHit(sm_areas[1], x, y)
       IN  /\ HitTarget(hit) = Some(SelectMenuSelfUiTarget)
           /\ hit[1].area.x + 1 <= x
           /\ x < hit[1].area.x + hit[1].area.width - 1
           /\ hit[1].area.y + 1 <= y
           /\ y < hit[1].area.y + hit[1].area.height - 1

\* The row, counted from 0 inside the border, of a click at height y on the
\* menu's rendered area.
ClickedRow(x, y) == y - (FindHit(sm_areas[1], x, y)[1].area.y + 1)

\* C13: a click inside the active menu's rendered list on row r, r below the
\* number of selectable rows, selects index r, emits Accept of the item at
\* r, commits it as the saved selection and deactivates the menu in one
\* step; an index selected by a click is one that Up/Down can reach.
C13_ClickSelectsRow ==
    /\ \A x \in 0..10, y \in 0..(MaxMenuItems + 2) :
          (ClickedInsideList(x, y)
             /\ ClickedRow(x, y) < SelectableRows(sm_prev.select_menu_state))
          => LET after == [sm_prev.select_menu_state EXCEPT
                              !.selected_index = Some(ClickedRow(x, y)),
                              !.active = FALSE]
             IN  /\ sm_acc.select_menu_state = after
                 /\ sm_acc.saved_select_menu_state = after
                 /\ MenuEmitted(SmAccept(SelectedItem(after)))
    /\ (sm_trigger = "input" /\ sm_buf_a[1].type = "MouseUpLeft"
          /\ sm_emitted # None /\ sm_emitted[1].ev.kind = "Accept")
       => sm_acc.select_menu_state.selected_index[1]
              \in 0..LastIndex(sm_acc.select_menu_state)

\* A click on the second row of an active menu selected index 1, which was
\* not the selection before, and accepted the item there.
C13_Witness ==
    /\ ClickedInsideList(9, 2)
    /\ sm_prev.select_menu_state.selected_index # Some(1)
    /\ sm_acc.select_menu_state.selected_index = Some(1)
    /\ ~sm_acc.select_menu_state.active
    /\ sm_emitted # None
    /\ sm_emitted[1].ev.kind = "Accept"
    /\ sm_emitted[1].ev.item # None

SentBy(stream) == {i \in 1..Len(lab_sent) : lab_sent[i].stream = stream}

\* The latest item the source sent at or before position i.
LatestBy(stream, i) ==
    lab_sent[CHOOSE j \in SentBy(stream) :
                 j <= i /\ \A k \in SentBy(stream) : k <= i => k <= j].item

\* out lists, in increasing order of position, Value(i) for the positions
\* in at: the k-th smallest position of at gives out[k].
ListsInOrder(out, at, Value(_)) ==
    /\ Len(out) = Cardinality(at)
    /\ \A i \in at : out[Cardinality({j \in at : j <= i})] = Value(i)

\* C17: combine_latest emits nothing until both inputs have sent; from then
\* on every item of either input produces exactly one output, the latest
\* item of A with the latest item of B, in the order of the sends.
C17_CombineLatest ==
    LET both == {i \in 1..Len(lab_sent) :
                    (\E j \in SentBy("A") : j <= i) /\ (\E j \in SentBy("B") : j <= i)}
        pair(i) == <<LatestBy("A", i), LatestBy("B", i)>>
    IN  ListsInOrder(cl_out, both, pair)

\* A sent 1 and 2, then B sent x: exactly one output, (2, x).
C17_Witness ==
    /\ [i \in 1..Len(lab_sent) |-> lab_sent[i].stream] = <<"A", "A", "B">>
    /\ lab_sent[1].item = 1
    /\ lab_sent[2].item = 2
    /\ lab_sent[3].item = "x"
    /\ cl_out = <<<<2, "x">>>>

\* C18: with_latest_from emits exactly one output for each item of A that
\* arrives after B's first item, paired with the most recent item of B;
\* earlier items of A produce nothing and are not replayed, and an item of
\* B produces no output.
C18_WithLatestFrom ==
    LET after == {i \in SentBy("A") : \E j \in SentBy("B") : j < i}
        pair(i) == <<lab_sent[i].item, LatestBy("B", i)>>
    IN  ListsInOrder(wl_out, after, pair)

\* A sent before B's first item, B sent twice, and A sent again: the only
\* output pairs the later item of A with the second item of B.
C18_Witness ==
    /\ [i \in 1..Len(lab_sent) |-> lab_sent[i].stream] = <<"A", "B", "B", "A">>
    /\ lab_sent[2].item = "x"
    /\ lab_sent[3].item = "y"
    /\ wl_out = <<<<lab_sent[4].item, "y">>>>

\* The items of A, in the order sent.
SentA == [k \in 1..Cardinality(SentBy("A")) |->
             lab_sent[CHOOSE i \in SentBy("A") :
                          Cardinality({j \in SentBy("A") : j <= i}) = k].item]

\* C19: distinct_until_changed emits the first item, and afterwards an item
\* exactly when it differs from the one before it: the output is the input
\* with every run of equal consecutive items collapsed to one.
C19_DistinctUntilChanged ==
    LET starts == {k \in 1..Len(SentA) : k = 1 \/ SentA[k] # SentA[k - 1]}
        item(k) == SentA[k]
    IN  ListsInOrder(du_out, starts, item)

\* The input [1, 1, 2, 2, 2, 3] gave the output [1, 2, 3].
C19_Witness ==
    /\ SentA = <<1, 1, 2, 2, 2, 3>>
    /\ du_out = <<1, 2, 3>>

\* The entries of gb_out that are items, and those that announce a group.
ItemsAt == {i \in 1..Len(gb_out) : gb_out[i].kind = "item"}
GroupsAt == {i \in 1..Len(gb_out) : gb_out[i].kind = "group"}

\* C20: group_by announces each key's sub-stream exactly once, at the key's
\* first occurrence and before that item's value is sent into the
\* sub-stream; every item is sent into the sub-stream of its key, and a
\* later item of a key comes without a new announcement.
C20_GroupByAnnouncesOnce ==
    LET sentItem(k) == GroupItem(KeyFunc(SentA[k]), ValueFunc(SentA[k]))
        nth(i) == Cardinality({j \in ItemsAt : j <= i})
    IN  /\ Cardinality(ItemsAt) = Len(SentA)
        /\ \A i \in ItemsAt : gb_out[i] = sentItem(nth(i))
        /\ \A i, j \in GroupsAt : gb_out[i].key = gb_out[j].key => i = j
        /\ \A i \in GroupsAt :
              /\ i + 1 \in ItemsAt
              /\ gb_out[i + 1].key = gb_out[i].key
        /\ \A i \in ItemsAt :
              (\A j \in ItemsAt : j < i => gb_out[j].key # gb_out[i].key)
              <=> (i - 1 \in GroupsAt)

\* Two keys have occurred, the first of them three times: two announcements
\* and four items have gone downstream.
C20_Witness ==
    /\ Len(SentA) = 4
    /\ KeyFunc(SentA[1]) = KeyFunc(SentA[3])
    /\ KeyFunc(SentA[1]) = KeyFunc(SentA[4])
    /\ KeyFunc(SentA[1]) # KeyFunc(SentA[2])
    /\ Cardinality(GroupsAt) = 2
    /\ Len(gb_out) = 6

(***************************************************************************)
(* Claims about the routing of user input events.                          *)
(***************************************************************************)
\* The latest step was a user input event that reached the group_by.
Routed == rt_trigger = "input" /\ rt_routed # None

\* The latest step was a left-click release that reached the group_by.
RoutedClick == Routed /\ rt_routed[1].ev.type = "MouseUpLeft"

\* C15: while some overlay T is Active (the latest active-overlay value is
\* Some(T)), every key press and every left-click release, at any
\* coordinate, is grouped under T.
C15_ActiveOverlayClaimsEverything ==
    (/\ Routed
     /\ rt_routed[1].ev.type \in {"Key", "MouseUpLeft"}
     /\ rt_active_overlay # None
     /\ rt_active_overlay[1] # None)
    => /\ rt_routed[1].key = rt_active_overlay[1]
       /\ rt_out[Len(rt_out)] = GroupItem(rt_active_overlay[1], rt_routed[1].ev)

\* The places of the latest batch of reports whose rectangle holds (x, y).
ReportsHolding(x, y) ==
    {i \in 1..Len(rt_batch) :
        /\ rt_batch[i].area # None
        /\ LET area == rt_batch[i].area[1]
           IN  /\ area.x <= x
               /\ x < area.x + area.width
               /\ area.y <= y
               /\ y < area.y + area.height}

\* The last of a non-empty set of places.
LastPlace(places) == CHOOSE i \in places : \A j \in places : j <= i

\* C16: the hit of a click at (x, y) is the first target, scanned in reverse
\* report order over the latest batch, whose rectangle satisfies
\* left <= x < right and top <= y < bottom; a target whose rectangle is None
\* is never hit, and there is no hit when no rectangle contains the point.
C16_HitIsFirstInReverseReportOrder ==
    RoutedClick
    => LET holding == ReportsHolding(rt_routed[1].ev.x, rt_routed[1].ev.y)
       IN  /\ Len(rt_batch) = RoutingAreaBufferCount
           /\ IF holding = {}
              THEN rt_hit = None
              ELSE rt_hit = Some(rt_batch[LastPlace(holding)].ui_target)

\* A click at a point that two reported rectangles hold, with another
\* target reported without a rectangle, hits the one reported last.
C16_Witness ==
    /\ RoutedClick
    /\ rt_routed[1].ev = Click(3, 1)
    /\ Cardinality(ReportsHolding(3, 1)) = 2
    /\ \E i \in 1..Len(rt_batch) : rt_batch[i].area = None
    /\ rt_hit = Some("StockSymbolInput")

(***************************************************************************)
(* More claims about the text-field reducer.                               *)
(***************************************************************************)
\* The latest step was a character key reaching the reducer.
CharPressed ==
    /\ tf_trigger = "input"
    /\ tf_buf_a # None
    /\ tf_buf_a[1].code = "Char"

\* C26: Enter pressed while the field is active with an empty value is a
\* no-op: value, cursor_offset, active flag and saved value are unchanged,
\* and nothing (no Accept in particular) is emitted.
C26_EnterOnEmptyIsNoop ==
    (KeyPressed("Enter") /\ tf_prev.text_field_state.active
                         /\ tf_prev.text_field_state.value = <<>>)
    => /\ tf_acc.text_field_state = tf_prev.text_field_state
       /\ tf_acc.saved_text_field_state = tf_prev.saved_text_field_state
       /\ tf_emitted = None

\* Enter was pressed in an active field whose value had been emptied while
\* the saved value is not empty.
C26_Witness ==
    /\ KeyPressed("Enter")
    /\ tf_prev.text_field_state.active
    /\ tf_prev.text_field_state.value = <<>>
    /\ tf_prev.saved_text_field_state.value # <<>>
    /\ tf_acc.text_field_state.active

\* value with c put at position offset (counted from 0), place by place.
WithCharAt(value, offset, c) ==
    [i \in 1..(Len(value) + 1) |->
        IF i <= offset THEN value[i]
        ELSE IF i = offset + 1 THEN c
        ELSE value[i - 1]]

\* value without the character at position offset (counted from 0).
WithoutCharAt(value, offset) ==
    [i \in 1..(Len(value) - 1) |-> IF i <= offset THEN value[i] ELSE value[i + 1]]

\* The normalizer the field is built with, character by character.
Normalized(value) == [i \in 1..Len(value) |-> ToAsciiUppercase(value[i])]

\* No change of the overlay state was waiting for the latest step: the
\* overlay state the fold had seen is the latest one sent.
NoOverlayChangePending == tf_buf_b = Some(tf_prev.overlay_state)

C28_BackspaceAndDeleteRemoveOne ==
    LET before == tf_prev.text_field_state
    IN  /\ (KeyPressed("Backspace") /\ before.active /\ before.cursor_offset > 0)
           => tf_acc.text_field_state =
                  TextFieldState(TRUE,
                                 WithoutCharAt(before.value, before.cursor_offset - 1),
                                 before.cursor_offset - 1)
        /\ (KeyPressed("Delete") /\ before.active
                                 /\ before.cursor_offset < Len(before.value))
           => tf_acc.text_field_state =
                  TextFieldState(TRUE,
                                 WithoutCharAt(before.value, before.cursor_offset),
                                 before.cursor_offset)

\* Delete removed the middle one of three characters that differ from
\* their neighbours.
C28_Witness ==
    /\ KeyPressed("Delete")
    /\ tf_prev.text_field_state.active
    /\ tf_prev.text_field_state.value = <<"S", " ", "S">>
    /\ tf_prev.text_field_state.cursor_offset = 1
    /\ tf_acc.text_field_state.value = <<"S", "S">>
    /\ tf_acc.text_field_state.cursor_offset = 1

\* C29: every activation of an inactive field (own hotkey, click on an
\* activator target, or overlay state changed to Active) yields an active
\* state whose value equals the saved value and whose cursor_offset equals
\* the length of that value.
C29_ActivationStartsFromSavedValueCursorAtEnd ==
    (~tf_prev.text_field_state.active /\ tf_acc.text_field_state.active)
    => /\ Emitted(TfEvent("Activate"))
       /\ tf_acc.text_field_state.value = tf_acc.saved_text_field_state.value
       /\ tf_acc.text_field_state.cursor_offset = Len(tf_acc.text_field_state.value)

\* The latest step was a click on a target mapped to Toggle that reached
\* the fold.
ToggleClicked ==
    /\ tf_trigger = "input"
    /\ tf_buf_a # None
    /\ tf_buf_a[1].type = "MouseUpLeft"
    /\ tf_buf_b # None
    /\ tf_areas # None
    /\ ClickRoutedTo(tf_buf_a[1].x, tf_buf_a[1].y) = Some("Toggle")

\* A click mapped to Toggle activates an inactive field and deactivates an
\* active one, which reverts to the saved state; it emits Activate or
\* Deactivate.
ToggleClickTogglesActive ==
    ToggleClicked
    => IF tf_prev.text_field_state.active
       THEN /\ Emitted(TfEvent("Deactivate"))
            /\ tf_acc.text_field_state = tf_prev.saved_text_field_state
            /\ ~tf_acc.text_field_state.active
       ELSE /\ Emitted(TfEvent("Activate"))
            /\ tf_acc.text_field_state =
                   [tf_prev.text_field_state EXCEPT !.active = TRUE]

\* C30, as stated: a click on a target mapped to Toggle activates the field
\* when it is inactive and deactivates it, reverting to the saved state,
\* when it is active, emitting Activate or Deactivate and never Toggle; two
\* such clicks in a row return the reducer to its state before the first.
C30_ToggleTwiceRestoresState ==
    /\ []ToggleClickTogglesActive
    /\ [][(ToggleClicked /\ ToggleClicked')
           => /\ tf_acc'.text_field_state = tf_prev.text_field_state
              /\ tf_acc'.saved_text_field_state = tf_prev.saved_text_field_state]_vars

\* C30, amended: as above, but two such clicks in a row return an inactive
\* field to its state before the first click, and an active field to its
\* saved state, made active.
C30_ToggleTwiceRestoresSavedState ==
    /\ []ToggleClickTogglesActive
    /\ [][(ToggleClicked /\ ToggleClicked')
           => /\ tf_acc'.text_field_state =
                     IF tf_prev.text_field_state.active
                     THEN [tf_prev.saved_text_field_state EXCEPT !.active = TRUE]
                     ELSE tf_prev.text_field_state
              /\ tf_acc'.saved_text_field_state = tf_prev.saved_text_field_state]_vars

\* A click mapped to Toggle has deactivated a field that held an edited
\* value.
C30_Witness ==
    /\ ToggleClicked
    /\ tf_prev.text_field_state.active
    /\ tf_prev.text_field_state.value # tf_prev.saved_text_field_state.value
    /\ ~tf_acc.text_field_state.active
    /\ tf_acc.text_field_state.value = tf_acc.saved_text_field_state.value

(***************************************************************************)
(* Claims about group_by with switch and merge, switch, and buffer.        *)
(***************************************************************************)
\* The items of seq that have the key k, in order.
OfKey(seq, k) ==
    LET HasKey(x) == KeyFunc(x) = k
    IN  SelectSeq(seq, HasKey)

\* The places of seq at which a key occurs for the first time, and the
\* items at these places, in order.
FirstAt(seq) ==
    {i \in 1..Len(seq) : \A j \in 1..(i - 1) : KeyFunc(seq[j]) # KeyFunc(seq[i])}
FirstItems(seq) ==
    [k \in 1..Cardinality(FirstAt(seq)) |->
        seq[CHOOSE i \in FirstAt(seq) : Cardinality({j \in FirstAt(seq) : j <= i}) = k]]

\* C21: routing keyed items through group_by, one filter-by-key plus switch
\* branch per key, and a merge of the branches delivers every item exactly
\* once (the item that created its group included), keeps the order of the
\* items of each key, and outputs the keys' first items in the order of
\* the keys' first occurrence.
C21_RoutedAndRemerged ==
    /\ Len(mg_out) = Len(SentA)
    /\ \A a \in KeyedItem :
          Cardinality({i \in 1..Len(mg_out) : mg_out[i] = a})
              = Cardinality({i \in 1..Len(SentA) : SentA[i] = a})
    /\ \A k \in Range(BranchOrder) : OfKey(mg_out, k) = OfKey(SentA, k)
    /\ FirstItems(mg_out) = FirstItems(SentA)

\* Items with the keys [A, B, A, C, A], two different items among those of
\* key A, have been routed and remerged.
C21_Witness ==
    /\ SentA = <<1, 2, 4, 3, 1>>
    /\ mg_out = <<1, 2, 4, 3, 1>>
    /\ FirstItems(mg_out) = <<1, 2, 3>>

\* C22: once a new inner stream has arrived, the output of switch is drawn
\* from that inner stream only: an item sent afterwards on an earlier inner
\* stream does not appear in the output.
C22_SwitchDrawsFromLatestInner ==
    \A i \in 1..Len(sw_out) : sw_out[i].latest = Some(sw_out[i].inner)

\* C23: buffer(n), n >= 1, emits after exactly every n-th item one batch
\* holding the n items received since the previous emission, in arrival
\* order, and starts again from an empty buffer; it emits no batch of
\* another size.
C23_BufferEmitsEveryNth ==
    \A n \in BufferCounts :
        LET batches == Len(SentA) \div n
        IN  /\ Len(bf_out[n]) = batches
            /\ \A j \in 1..batches :
                  bf_out[n][j] = SubSeq(SentA, (j - 1) * n + 1, j * n)
            /\ bf_buf[n] = SubSeq(SentA, batches * n + 1, Len(SentA))

\* Five different-looking items have gone through buffer(2): two batches
\* are out and the fifth item waits in the buffer.
C23_Witness ==
    /\ SentA = <<1, 2, 3, 4, 1>>
    /\ bf_out[2] = << <<1, 2>>, <<3, 4>> >>
    /\ bf_buf[2] = <<1>>
    /\ bf_out[3] = << <<1, 2, 3>> >>

(***************************************************************************)
(* Claims about repeated overlay states.                                   *)
(***************************************************************************)
\* The latest step was a send on the overlay-states broadcast.
OverlayStatesSent == tf_trigger = "overlay" /\ Len(overlay_states_sent) = 1

\* C24: sending the same (target, overlay state) pair twice in a row on the
\* overlay-states broadcast produces at most one emission of the active
\* overlay and at most one Activate/Deactivate of the target's reducer: the
\* second send changes no state and emits nothing.
C24_RepeatedOverlayStateIsIdempotent ==
    [][(/\ OverlayStatesSent
        /\ OverlayStatesSent'
        /\ overlay_states_sent' = overlay_states_sent)
       => /\ active_overlays_sent' = <<>>
          /\ acc_active_overlay' = acc_active_overlay
          /\ active_overlay_buf' = active_overlay_buf
          /\ tf_emitted' = None
          /\ tf_acc' = tf_acc
          /\ tf_buf_b' = tf_buf_b]_vars

\* The field's own target was sent Active, which activated the field and
\* made its target the active overlay.
C24_Witness ==
    /\ OverlayStatesSent
    /\ overlay_states_sent[1].ui_target = TextFieldSelfUiTarget
    /\ overlay_states_sent[1].overlay_state = "Active"
    /\ active_overlays_sent = <<Some(TextFieldSelfUiTarget)>>
    /\ Emitted(TfEvent("Activate"))
    /\ tf_buf_a # None
    /\ tf_buf_a[1].code = "Char"

(***************************************************************************)
(* Claims about the data-fetch failures.                                   *)
(***************************************************************************)
\* C25: a failure of the data-fetch collaborator (Profile::load or a
\* retrieval of bars returning Err) does not abort the main loop: after a
\* step whose fetch failed the loop has not been unwound by a panic.
C25_FetchFailureDoesNotAbortLoop == stock_fetched = "Err" => ~stock_panicked

(***************************************************************************)
(* Claims about the routing while no overlay is active.                    *)
(***************************************************************************)
\* The latest step routed an event while the latest active overlay is None.
RoutedWithNoneActive ==
    Routed /\ rt_active_overlay = Some(None)

\* The overlay the hotkey table of main gives for a key press, if any.
OverlayOfHotkey(ev) ==
    IF ev.code = "Char" /\ ev.ch = "i" THEN Some("IndicatorList")
    ELSE IF ev.code = "Char" /\ ev.ch = "s" THEN Some("StockSymbolInput")
    ELSE IF ev.code = "Char" /\ ev.ch = "t" THEN Some("TimeFrameList")
    ELSE None

\* The overlay the association table of main gives for a target.
OverlayOfTarget(ui_target) ==
    IF ui_target \in {"IndicatorBox", "IndicatorList"} THEN Some("IndicatorList")
    ELSE IF ui_target \in {"StockName", "StockSymbol", "StockSymbolInput"}
         THEN Some("StockSymbolInput")
    ELSE IF ui_target \in {"TimeFrameBox", "TimeFrameList"} THEN Some("TimeFrameList")
    ELSE None

\* C31: while no overlay is Active, a key press is grouped under the overlay
\* the hotkey table maps its key code to, or under no overlay when the key is
\* unmapped; a left-click release is grouped under the associated overlay of
\* the hit target, or under no overlay when nothing is hit; every other mouse
\* event is grouped under no overlay.
C31_RoutingWithNoActiveOverlay ==
    RoutedWithNoneActive
    => LET ev == rt_routed[1].ev
           overlay == IF ev.type = "Key" THEN OverlayOfHotkey(ev)
                      ELSE IF ev.type = "MouseUpLeft"
                           THEN IF rt_hit = None THEN None ELSE OverlayOfTarget(rt_hit[1])
                           ELSE None
       IN  /\ rt_routed[1].key = overlay
           /\ rt_out[Len(rt_out)] = GroupItem(overlay, ev)

\* A click on the stock symbol, which is no overlay, is grouped under the
\* stock symbol input.
C31_Witness ==
    /\ RoutedWithNoneActive
    /\ rt_routed[1].ev.type = "MouseUpLeft"
    /\ rt_hit = Some("StockSymbol")
    /\ rt_routed[1].key = Some("StockSymbolInput")

(***************************************************************************)
(* Claims about the select menu widget.                                    *)
(***************************************************************************)
\* C32: with allow_empty_selection index 0 stands for no selection:
\* selected() returns None at index 0 and the n-th item at index n in
\* 1..=len; without it index n yields the item after the first n.
\* select(Some(item)) followed by selected() returns that item, and
\* select(None) followed by selected() returns None.
C32_EmptySelectionIsIndexZero ==
    LET st == menu_state
        l == Len(st.items)
        n == st.selected_index[1]
        returned == menu_called.selected
    IN  /\ (st.selected_index # None /\ st.allow_empty_selection /\ n = 0)
           => returned = [panicked |-> FALSE, item |-> None]
        /\ (st.selected_index # None /\ st.allow_empty_selection /\ n \in 1..l)
           => returned = [panicked |-> FALSE, item |-> Some(st.items[n])]
        /\ (st.selected_index # None /\ ~st.allow_empty_selection /\ n \in 0..(l - 1))
           => returned = [panicked |-> FALSE, item |-> Some(st.items[n + 1])]
        /\ (menu_called.call = "select" /\ menu_called.item # None
                /\ menu_called.item[1] \in Range(st.items))
           => /\ menu_called.ok
              /\ returned = [panicked |-> FALSE, item |-> menu_called.item]
        /\ (menu_called.call = "select" /\ menu_called.item = None
                /\ st.allow_empty_selection)
           => /\ menu_called.ok
              /\ st.selected_index = Some(0)
              /\ returned = [panicked |-> FALSE, item |-> None]

\* The last item was selected on a menu that allows the empty selection.
C32_Witness ==
    /\ menu_state.allow_empty_selection
    /\ Len(menu_state.items) = MaxMenuItems
    /\ menu_called.call = "select"
    /\ menu_called.item = Some(TimeFrameNames[MaxMenuItems])
    /\ menu_state.selected_index = Some(MaxMenuItems)
    /\ menu_called.selected.item = Some(TimeFrameNames[MaxMenuItems])

(***************************************************************************)
(* Claims about the drain of the overlay queue.                            *)
(***************************************************************************)
\* C34: while the main loop drains the overlay queue, holding it mutably
\* borrowed, no reducer's reaction to a flushed overlay state yields a
\* non-empty arbitration changeset: the subscriber never takes the queue
\* during the drain (which would panic on the borrow), nothing is pushed
\* during the drain, and the queue is empty when the drain is over.
C34_NothingQueuedDuringDrain ==
    /\ ~panicked
    /\ pc = "input" => overlay_state_queue = <<>>
    /\ (pc = "input" /\ overlay_states_sent # <<>> /\ overlay_state_changeset # EmptyMap)
       => /\ Len(overlay_states_sent) = Cardinality(DOMAIN overlay_state_changeset)
          /\ \A i \in 1..Len(overlay_states_sent) :
                /\ overlay_states_sent[i].ui_target \in DOMAIN overlay_state_changeset
                /\ overlay_state_changeset[overlay_states_sent[i].ui_target]
                       = overlay_states_sent[i].overlay_state

\* A flush has sent two queued changes and a reducer has answered one of
\* them: the fold ran again and left an empty changeset.
C34_Witness ==
    /\ pc = "input"
    /\ ~panicked
    /\ Len(overlay_states_sent) = 2
    /\ overlay_state_changeset = EmptyMap

(***************************************************************************)
(* Claims about the loop of main with the graph it builds.                 *)
(***************************************************************************)
\* The arbitration map holds the target as Active.
HeldActive(ui_target) ==
    /\ ui_target \in DOMAIN acc_overlay_state_map
    /\ acc_overlay_state_map[ui_target] = "Active"

\* The latest value of the active-overlays stream is Some(ui_target).
LatestActiveOverlayIs(ui_target) ==
    /\ active_overlay_buf = Some(Some(ui_target))
    /\ rt_active_overlay = active_overlay_buf

\* C33: after the overlay queue has been flushed at the start of a loop
\* iteration, the three views agree for every overlay target T: the
\* arbitration map holds T as Active if and only if the latest
\* active-overlay value is Some(T), if and only if T's reducer (the stock
\* symbol field, the one reducer main builds) has active = true.
C33_ViewsAgreeAfterFlush ==
    pc = "input"
    => \A ui_target \in OverlayUiTarget :
          /\ HeldActive(ui_target) <=> LatestActiveOverlayIs(ui_target)
          /\ ui_target = TextFieldSelfUiTarget
             => (tf_acc.text_field_state.active <=> HeldActive(ui_target))
          /\ ui_target # TextFieldSelfUiTarget => ~HeldActive(ui_target)

\* The field was activated, the change was flushed, and all three views
\* hold it active.
C33_Witness ==
    /\ pc = "input"
    /\ overlay_states_sent # <<>>
    /\ tf_acc.text_field_state.active
    /\ HeldActive(TextFieldSelfUiTarget)
    /\ LatestActiveOverlayIs(TextFieldSelfUiTarget)

\* The latest step sent a press of 'q' that was routed.
QPressed ==
    /\ rt_trigger = "input"
    /\ rt_routed # None
    /\ rt_routed[1].ev = CharKey("q")

\* C39: a press of 'q' sets the quit flag only when it is routed to the
\* non-overlay group, that is while no overlay is Active; while the field
\* is Active, a press of 'q' does not set the flag and the loop goes on.
C39_QuitOnlyWithoutActiveOverlay ==
    /\ should_quit
       => /\ QPressed
          /\ rt_routed[1].key = None
          /\ rt_routed[1].active_overlay = None
          /\ ~tf_prev.text_field_state.active
          /\ \A ui_target \in OverlayUiTarget : ~HeldActive(ui_target)
    /\ (QPressed /\ (tf_prev.text_field_state.active
                        \/ rt_routed[1].active_overlay # None))
       => /\ ~should_quit
          /\ rt_routed[1].key = Some(TextFieldSelfUiTarget)
    /\ (QPressed /\ rt_routed[1].active_overlay = None) => should_quit

\* 'q' was pressed while the field was active: it was typed into the field
\* and the flag is not set.
C39_Witness ==
    /\ QPressed
    /\ tf_prev.text_field_state.active
    /\ tf_emitted # None
    /\ tf_emitted[1].ev.kind = "Input"
    /\ Len(tf_acc.text_field_state.value) = Len(tf_prev.text_field_state.value) + 1
    /\ ~should_quit

(***************************************************************************)
(* C35: an item on the overlay-state input never applies the most recent   *)
(* input event again.                                                      *)
(***************************************************************************)
\* C35: across any interleaving of input events, area batches and overlay
\* states, the fold takes the arms of the most recent input event at most
\* once: an overlay state that passes distinct_until_changed after the event
\* was applied differs from the accumulated one and takes the transition
\* branch instead.
C35_InputEventAppliedAtMostOnce == tf_applied <= 1

\* An overlay state arrives after the latest input event was applied, the
\* fold runs on it and takes the transition branch, which changes the field.
C35_Witness ==
    /\ tf_trigger = "overlay"
    /\ tf_applied = 1
    /\ tf_buf_a # None
    /\ tf_prev.overlay_state # tf_acc.overlay_state
    /\ tf_prev.text_field_state # tf_acc.text_field_state

(***************************************************************************)
(* C36: the string an Accept event carries.                                *)
(***************************************************************************)
\* C36: every Accept event emitted by the text-field reducer carries a
\* non-empty string; a value of whitespace alone is not accepted as "".
C36_AcceptCarriesNonEmptyString ==
    (tf_emitted # None /\ tf_emitted[1].ev.kind = "Accept")
    => tf_emitted[1].ev.value # <<>>

(***************************************************************************)
(* C38: clicks on the border of the menu.                                  *)
(***************************************************************************)
\* (x, y) lies inside area and not on its one-cell border.
StrictlyInsideBorder(area, x, y) ==
    /\ area.x + 1 <= x
    /\ x < area.x + area.width - 1
    /\ area.y + 1 <= y
    /\ y < area.y + area.height - 1

\* The latest step was a left-click release at (x, y) that hit a border
\* cell of the menu's own rendered area while the menu was active.
ClickedOnBorder(x, y) ==
    /\ sm_trigger = "input"
    /\ sm_buf_a = Some(Click(x, y))
    /\ sm_prev.select_menu_state.active
    /\ sm_areas # None
    /\ LET hit == FindHit(sm_areas[1], x, y)
       IN  /\ HitTarget(hit) = Some(SelectMenuSelfUiTarget)
           /\ ~StrictlyInsideBorder(hit[1].area, x, y)

\* C38: point_to_index returns an index only for a point strictly inside
\* the one-cell border of the menu area, and a click on a border cell of the
\* active menu selects no item.
C38_BorderClickSelectsNothing ==
    /\ \A x \in 0..11, y \in 0..(MaxMenuItems + 2) :
          LET menu_area == RenderedArea(SelectMenuSelfUiTarget,
                                        [NoMenuRows EXCEPT ![SelectMenuSelfUiTarget] =
                                            SelectableRows(sm_acc.select_menu_state)])
              found == PointToIndex(sm_acc.select_menu_state, menu_area, x, y)
          IN  (~found.panicked /\ found.index # None)
              => StrictlyInsideBorder(menu_area, x, y)
    /\ \A x \in 0..11, y \in 0..(MaxMenuItems + 2) :
          ClickedOnBorder(x, y)
          => /\ ~(sm_emitted # None /\ sm_emitted[1].ev.kind = "Accept")
             /\ sm_acc.saved_select_menu_state = sm_prev.saved_select_menu_state

C40_DateRangePanning ==
    LET time_frame == dr_buf_time_frame[1]
        duration == TimeFrameDuration(time_frame)
        now == NowDateRange(time_frame)
    IN  (~dr_panicked /\ duration # None)
        => /\ dr_latest # None
           /\ dr_latest[1][2] - dr_latest[1][1] = duration[1]
           /\ dr_latest[1][2] <= now[1][2]
           /\ (dr_trigger = "input" /\ dr_buf_ev = Some(Key("Right")) /\ dr_prev = now)
              => dr_latest = now
           /\ dr_trigger \in {"stock_symbol", "time_frame"} => dr_latest = now

============================================================================
